---- MODULE Spec2Model ----
(***************************************************************************)
(* Model of the streaming ZIP export of web/packages/gallery/services/     *)
(* zip.ts (streamFilesToZip).                                              *)
(*                                                                         *)
(* The JavaScript run-time is modelled explicitly: `jobs' is the FIFO      *)
(* microtask queue, a step guarded by HeadIs runs the job at its head up   *)
(* to its next await, and the environment's events (a fetch, a stream      *)
(* read, a timer, a sink write or close settling, the user cancelling)     *)
(* happen only when the microtask queue is empty.  A promise keeps its     *)
(* reactions in registration order (chWaiters for the links of writeChain, *)
(* pWaiters for the entry promises); settling it appends them to `jobs' in *)
(* that order.                                                             *)
(*                                                                         *)
(* The concurrency starts at the smallest value clampConcurrency allows;    *)
(* the periodic refresh that changes it during a run is part of            *)
(* SpecRefresh only.  The write queue limit is the bound WriteQueueLimit.  *)
(* In Spec the caller supplies the writable; SpecHandle covers the runs    *)
(* that ask getWritableStreamForZip for one.  cancelPoint, faulted and     *)
(* failures record what the environment has done to the run; the program   *)
(* does not read them.                                                     *)
(*                                                                         *)
(* The fflate encoder (Zip / ZipPassThrough) is modelled by what it does   *)
(* to the data callback: the chunks of an entry are emitted as they are    *)
(* pushed only while every entry added before it has been terminated;      *)
(* otherwise they are buffered in the encoder and emitted, in entry order, *)
(* when the entries before have been terminated.                           *)
(*                                                                         *)
(* The functions around the export have specifications of their own:       *)
(* createZipFileName (SpecFileName, titles as sequences of characters),    *)
(* getStreamZipConcurrency and getStreamZipWriteQueueLimit of              *)
(* zip-concurrency.ts (SpecProbes, amounts of memory in MB), the sink of   *)
(* createNativeZipWritable (SpecNativeSink) and the sink of                *)
(* getWritableStreamForZip (SpecBrowserSink); there the callers of a sink  *)
(* act only when no reaction the sink registered is pending.  SpecSettling *)
(* is an export under the fairness that lets everything pending settle.    *)
(* SpecSampler is the memoizing memory sampler of zip-concurrency.ts with  *)
(* a clock in steps of TickMs; SpecSchedule is an export of NumFiles files *)
(* under a changing concurrency target; SpecSinkErrors is an export into a *)
(* sink whose write errors may or may not look like closing errors (in     *)
(* every other specification a failed write is an error that               *)
(* isClosingError does not recognise).                                     *)
(***************************************************************************)
EXTENDS Integers, Sequences, FiniteSets, TLC

\* ---------------------------------------------------------------- bounds
NumFiles == 3
SmallFiles == 2
DataChunks == 1
WriteQueueLimit == 2
MaxReading == 3
MaxTokens == 4
MaxPart == 12
MaxCores == 64
MaxSinkCalls == 2
MaxFinalizeCalls == 4
MaxSamplerCalls == 4
StartMs == 1200
TickMs == 300
MaxMs == 2400

\* ------------------------------------------------------ program constants
STREAM_ZIP_MAX_RETRIES == 3
STREAM_ZIP_MIN_CONCURRENCY == 2
STREAM_ZIP_MAX_CONCURRENCY == 24
STREAM_ZIP_BASE_WRITE_QUEUE_LIMIT == 24
STREAM_ZIP_CONCURRENCY_REFRESH_MS == 600
DefaultConcurrency == 4

Files == 1..NumFiles
Entries == 1..(2 * NumFiles)
\* an entry hands at most a header, DataChunks chunks, the empty final chunk
\* and a data descriptor to the data callback; zip.end() one more chunk
ChunkIds == 1..(2 * NumFiles * (DataChunks + 3) + 2)
LinkIds == ChunkIds
EntryId(f, s) == 2 * (f - 1) + s
FileOf(e) == (e + 1) \div 2

VARIABLES
    numFiles,           \* files.length
    kind,               \* file -> "file" | "live"   (file.metadata.fileType)
    signalAborted,      \* signal.aborted
    env,                \* what the environment may do in this run
    cancelPoint,        \* where the run was when the user cancelled
    writable,           \* options.writable is supplied
    platform,           \* what getWritableStreamForZip finds in the browser
    title,              \* the title createZipFileName is called with
    part,               \* its optional part number
    zipName,            \* the name createZipFileName returned (<<>>: not yet)
    probes,             \* what the memory and CPU probes of the browser report
    concurrency,        \* what getStreamZipConcurrency resolved to (0: not yet)
    limit,              \* what getStreamZipWriteQueueLimit resolved to (0: not yet)
    native,             \* the sink createNativeZipWritable made
    browser,            \* the sink getWritableStreamForZip made
    sampler,            \* the module state of measureUserAgentMemory
    faulted,            \* files a failure was injected for (0: the sink)
    failures,           \* entry -> number of getData calls that failed
    jobs,               \* the microtask queue
    mainPc, idx, sub, result, lastCompletedIndex, asLeft, flushLast, racePending,
    allowWrites, writerClosed, writerClosing, shuttingDown,
    writesRequested, writesQueued, writeQueueDepth, zipError,
    chain, chWaiters,   \* links of writeChain and their reactions
    emitted, enq,       \* chunks given to the data callback, state of enqueueWrite
    sinkState, sinkInflight, writeCalls, written, closeCalls, abortCalls,
    prepState, prepSettled, nextToSchedule, active, targetConcurrency,
    ePc, attempt, reads, eLink, getDataCalls, addCount, retries, retryCount,
    inFlightEntries, pState, pWaiters, entryFailure,
    entriesAddedToZip, entriesCompletedInZip,
    zipU, zipD, tr, chks,
    allLeft, allState, fcSettled, succCalls, failCalls

vName == <<title, part, zipName>>
vProbe == <<probes, concurrency, limit>>
vSinks == <<native, browser>>
vIn == <<numFiles, kind, signalAborted, env, cancelPoint, writable, platform,
         vName, vProbe, vSinks, sampler>>
vEnv == <<vIn, faulted, failures>>
vMain == <<mainPc, idx, sub, result, lastCompletedIndex, asLeft, flushLast, racePending>>
vFlags == <<allowWrites, writerClosed, writerClosing, shuttingDown>>
vCnt == <<writesRequested, writesQueued, writeQueueDepth, zipError>>
vChain == <<chain, chWaiters>>
vEmit == <<emitted, enq>>
vSink == <<sinkState, sinkInflight, writeCalls, written, closeCalls, abortCalls>>
vPrep == <<prepState, prepSettled, nextToSchedule, active, targetConcurrency>>
vEnt == <<ePc, attempt, reads, eLink, getDataCalls, addCount, retries, retryCount,
          inFlightEntries, pState, pWaiters, entryFailure,
          entriesAddedToZip, entriesCompletedInZip>>
vZip == <<zipU, zipD, tr, chks>>
vFile == <<allLeft, allState, fcSettled, succCalls, failCalls>>

vars == <<vEnv, jobs, vMain, vFlags, vCnt, vChain, vEmit, vSink, vPrep, vEnt,
          vZip, vFile>>

\* ----------------------------------------------------------------- helpers
Job(k, id) == [k |-> k, id |-> id]
Chunk(e, t, n) == [e |-> e, t |-> t, n |-> n]
Max(a, b) == IF a > b THEN a ELSE b

RECURSIVE SelectJobs(_, _)
\* the reactions registered on promise `p', in registration order
SelectJobs(ws, p) ==
    IF ws = <<>> THEN <<>>
    ELSE IF Head(ws).p = p
         THEN <<Head(ws).j>> \o SelectJobs(Tail(ws), p)
         ELSE SelectJobs(Tail(ws), p)

RECURSIVE DropJobs(_, _)
DropJobs(ws, p) ==
    IF ws = <<>> THEN <<>>
    ELSE IF Head(ws).p = p
         THEN DropJobs(Tail(ws), p)
         ELSE <<Head(ws)>> \o DropJobs(Tail(ws), p)

\* number of entries a prepared file has (prepareFile)
EntryCountOf(f) == IF kind[f] = "live" THEN 2 ELSE 1

\* the entries of a prepared file (prepareFile): image and video for a live
\* photo, the file itself otherwise
EntriesOf(f) == {EntryId(f, s) : s \in 1..EntryCountOf(f)}

\* the failures the environment can inject: the files whose download can
\* fail (fetch), whose stream reads can fail (read), whose live-photo download
\* or decode can fail (prep), whose dataToStream can throw (conv); whether a
\* sink write or close can fail (sink) and whether the user can cancel
\* (cancel); with `sure' every failure that can happen does happen
EnvOf(cancel, fetch, read, prep, conv, sink, sure) ==
    [cancel |-> cancel, fetch |-> fetch, read |-> read, prep |-> prep,
     conv |-> conv, sink |-> sink, sure |-> sure]

\* the outcomes the environment can give to an operation that it is, or is
\* not, allowed to fail
Outcome(ok, canFail) ==
    /\ ~ok => canFail
    /\ ok => ~(canFail /\ env.sure)

\* ------------------------------------------- the probes of zip-concurrency
\* memory: performance.measureUserAgentSpecificMemory is "absent", "failing"
\* (it throws or rejects) or "ok"; usedMB: the bytes it reports, in MB;
\* deviceMB: navigator.deviceMemory in MB, cores: navigator.hardwareConcurrency
\* (0: undefined, which the code does not tell from 0)
ProbesOf(memory, usedMB, deviceMB, cores) ==
    [memory |-> memory, usedMB |-> usedMB, deviceMB |-> deviceMB,
     cores |-> cores]

\* ------------------------------------------------------ createZipFileName
\* a string is the sequence of its characters
IllegalChars == {"\\", "/", ":", "*", "?", "\"", "<", ">", "|"}
Whitespace == {" "}
DefaultBase == <<"e", "n", "t", "e", "-", "d", "o", "w", "n", "l", "o", "a", "d">>
ZipExt == <<".", "z", "i", "p">>
PartInfix == <<"-", "p", "a", "r", "t">>

\* a replace without the g flag: only the first illegal character is replaced
ReplaceIllegalFirst(s) ==
    [i \in 1..Len(s) |->
        IF s[i] \in IllegalChars /\ \A j \in 1..(i - 1) : s[j] \notin IllegalChars
        THEN "_" ELSE s[i]]

\* title.replace(/[\\/:*?"<>|]/g, "_")
ReplaceIllegal(s) ==
    [i \in 1..Len(s) |-> IF s[i] \in IllegalChars THEN "_" ELSE s[i]]

RECURSIVE TrimStart(_)
TrimStart(s) ==
    IF s # <<>> /\ Head(s) \in Whitespace THEN TrimStart(Tail(s)) ELSE s

RECURSIVE TrimEnd(_)
TrimEnd(s) ==
    IF s # <<>> /\ s[Len(s)] \in Whitespace
    THEN TrimEnd(SubSeq(s, 1, Len(s) - 1)) ELSE s

\* String.prototype.trim
Trim(s) == TrimEnd(TrimStart(s))

\* a replace that leaves a trailing extension in place
StripZipNever(s) == s

\* .replace(/\.zip$/i, "")
StripZip(s) ==
    LET n == Len(s)
    IN  IF /\ n >= 4
           /\ s[n - 3] = "."
           /\ s[n - 2] \in {"z", "Z"}
           /\ s[n - 1] \in {"i", "I"}
           /\ s[n] \in {"p", "P"}
        THEN SubSeq(s, 1, n - 4)
        ELSE s

\* the decimal digits of a natural number, as a template literal prints it
RECURSIVE Digits(_)
Digits(n) ==
    LET d == <<"0", "1", "2", "3", "4", "5", "6", "7", "8", "9">>
    IN  IF n < 10 THEN <<d[n + 1]>>
        ELSE Digits(n \div 10) \o <<d[(n % 10) + 1]>>

\* the optional argument `part': absent, or a number
NoPart == [given |-> FALSE, n |-> 0]
PartOf(n) == [given |-> TRUE, n |-> n]

\* createZipFileName(title, part); `part ?' is false for an absent part and
\* for the number 0
createZipFileName(t, pt) ==
    LET trimmed == Trim(ReplaceIllegal(t))
        base == StripZip(IF trimmed = <<>> THEN DefaultBase ELSE trimmed)
    IN  IF pt.given /\ pt.n # 0
        THEN base \o PartInfix \o Digits(pt.n) \o ZipExt
        ELSE base \o ZipExt

\* the three parts of the sink createNativeZipWritable builds, as it leaves
\* the constructor: the flags streamError and aborted, the promise of
\* writeStream and its rejection handler, the writer of the transform stream
\* and how often it was aborted, and the calls made on the handle so far
NativeNew ==
    [streamError |-> FALSE, aborted |-> FALSE, writePromise |-> "pending",
     catchJob |-> FALSE, writer |-> "writable", writerAborts |-> 0,
     abortCalls |-> 0, writes |-> <<>>, closes |-> <<>>]

\* the sink getWritableStreamForZip builds: the flag `closed' its four
\* closures share, the calls StreamSaver's writer has received, the state of
\* wrappedStream and the calls made so far
BrowserNew ==
    [closed |-> FALSE, writerCloses |-> 0, writerAborts |-> 0,
     stream |-> "writable", calls |-> <<>>]

\* the module state of zip-concurrency.ts when it is loaded: no measurement
\* pending, none remembered, no probe invoked and no call made; `now' is
\* Date.now()
SamplerNew ==
    [hasMeasure |-> TRUE, now |-> StartMs, lastMemoryMeasurement |-> 0,
     lastMemoryMeasurementAt |-> 0, pendingMemoryMeasurement |-> 0,
     invoked |-> 0, stage |-> <<>>, calls |-> <<>>]

\* a run of streamFilesToZip is given its handle: neither sink is looked
\* into, nor is the memory sampler
SinksUnused ==
    /\ native = NativeNew
    /\ browser = BrowserNew
    /\ sampler = SamplerNew

\* a run of streamFilesToZip: the file name plays no part in it, and the
\* concurrency and the write queue limit are those of the model
Unnamed ==
    /\ title = <<>>
    /\ part = NoPart
    /\ probes = ProbesOf("absent", 0, 0, 0)

\* the browser as getWritableStreamForZip sees it: `window', WritableStream
\* and navigator.serviceWorker exist, and StreamSaver creates a write stream
\* without throwing
PlatformOf(win, ws, sw, saver) ==
    [window |-> win, writableStream |-> ws, serviceWorker |-> sw,
     streamSaver |-> saver]

Platforms ==
    {PlatformOf(win, ws, sw, saver) : win, ws, sw, saver \in BOOLEAN}

\* getWritableStreamForZip(fileName): a handle, or undefined
getWritableStreamForZip(p) ==
    IF ~p.window \/ ~p.writableStream \/ ~p.serviceWorker
    THEN "undefined"
    ELSE IF p.streamSaver THEN "handle" ELSE "undefined"

InitProgram ==
    /\ signalAborted = FALSE
    /\ cancelPoint = "none"
    /\ faulted = {}
    /\ failures = [e \in Entries |-> 0]
    /\ jobs = <<>>
    /\ zipName = <<>>
    /\ concurrency = 0
    /\ limit = 0
    /\ mainPc = "begin"
    /\ idx = 1
    /\ sub = 1
    /\ result = "none"
    /\ lastCompletedIndex = 0
    /\ asLeft = {}
    /\ flushLast = 0
    /\ racePending = FALSE
    /\ allowWrites = TRUE
    /\ writerClosed = FALSE
    /\ writerClosing = FALSE
    /\ shuttingDown = FALSE
    /\ writesRequested = 0
    /\ writesQueued = 0
    /\ writeQueueDepth = 0
    /\ zipError = "none"
    /\ chain = <<>>
    /\ chWaiters = <<>>
    /\ emitted = <<>>
    /\ enq = <<>>
    /\ sinkState = "open"
    /\ sinkInflight = 0
    /\ writeCalls = <<>>
    /\ written = {}
    /\ closeCalls = 0
    /\ abortCalls = 0
    /\ prepState = [f \in Files |-> "unsched"]
    /\ prepSettled = [f \in Files |-> FALSE]
    /\ nextToSchedule = 1
    /\ active = 0
    /\ targetConcurrency = STREAM_ZIP_MIN_CONCURRENCY
    /\ ePc = [e \in Entries |-> "idle"]
    /\ attempt = [e \in Entries |-> 0]
    /\ reads = [e \in Entries |-> 0]
    /\ eLink = [e \in Entries |-> 0]
    /\ getDataCalls = [e \in Entries |-> 0]
    /\ addCount = [e \in Entries |-> 0]
    /\ retries = [e \in Entries |-> 0]
    /\ retryCount = 0
    /\ inFlightEntries = <<>>
    /\ pState = [e \in Entries |-> "none"]
    /\ pWaiters = <<>>
    /\ entryFailure = FALSE
    /\ entriesAddedToZip = 0
    /\ entriesCompletedInZip = 0
    /\ zipU = <<>>
    /\ zipD = 1
    /\ tr = [e \in Entries |-> 0]
    /\ chks = [e \in Entries |-> <<>>]
    /\ allLeft = [f \in Files |-> 0]
    /\ allState = [f \in Files |-> "none"]
    /\ fcSettled = [f \in Files |-> FALSE]
    /\ succCalls = [f \in Files |-> 0]
    /\ failCalls = [f \in Files |-> 0]

\* the file lists of n files
KindsOf(n) ==
    {k \in [Files -> {"file", "live"}] : \A f \in Files : f > n => k[f] = "file"}

\* every export of up to SmallFiles files, with every failure of a download,
\* of a read, of a preparation and of the sink, and with cancellation
Init ==
    /\ numFiles \in 1..SmallFiles
    /\ kind \in KindsOf(numFiles)
    /\ env = EnvOf(TRUE, Files, Files, Files, {}, TRUE, FALSE)
    /\ writable = TRUE
    /\ platform = PlatformOf(TRUE, TRUE, TRUE, TRUE)
    /\ Unnamed
    /\ SinksUnused
    /\ InitProgram

\* ------------------------------------------------------------ the encoder
\* zip.add(passThrough): the entry's header is kept with the entry's chunks;
\* the entry emits at once only when every earlier entry is terminated (d = 1)
ZipAdd(e) ==
    [u |-> Append(zipU, e),
     d |-> 0,
     tr |-> [tr EXCEPT ![e] = zipD],
     chks |-> [chks EXCEPT ![e] = <<Chunk(e, "hdr", 0)>>]]

RECURSIVE ZipRelease(_, _, _, _)
\* r() of the entry at position `pos' of u: emit what it has buffered and,
\* when it is already terminated, hand over to the next entry
ZipRelease(u, pos, t, c) ==
    LET e == u[pos]
        t1 == [t EXCEPT ![e] = 1]
        c1 == [c EXCEPT ![e] = <<>>]
    IN  IF t[e] = 1
        THEN IF pos < Len(u)
             THEN LET rest == ZipRelease(u, pos + 1, t1, c1)
                  IN  [out |-> c[e] \o rest.out, tr |-> rest.tr,
                       chks |-> rest.chks, d |-> rest.d]
             ELSE [out |-> c[e], tr |-> t1, chks |-> c1, d |-> 1]
        ELSE [out |-> c[e], tr |-> t1, chks |-> c1, d |-> 0]

PosOf(u, e) == CHOOSE p \in 1..Len(u) : u[p] = e

\* passThrough.push(chunk, final) for an entry that has been added: the
\* chunks handed to the Zip data callback by this push, and the encoder after
ZipPush(z, e, new, final) ==
    LET c2 == IF final
              THEN z.chks[e] \o new \o <<Chunk(e, "dd", 0)>>
              ELSE z.chks[e] \o new
    IN  IF final
        THEN IF z.tr[e] = 1
             THEN LET r == ZipRelease(z.u, PosOf(z.u, e), z.tr,
                                      [z.chks EXCEPT ![e] = c2])
                  IN  [out |-> r.out, u |-> z.u, d |-> r.d, tr |-> r.tr,
                       chks |-> r.chks]
             ELSE [out |-> <<>>, u |-> z.u, d |-> z.d,
                   tr |-> [z.tr EXCEPT ![e] = 1],
                   chks |-> [z.chks EXCEPT ![e] = c2]]
        ELSE IF z.tr[e] = 1
             THEN [out |-> c2, u |-> z.u, d |-> z.d, tr |-> z.tr,
                   chks |-> [z.chks EXCEPT ![e] = <<>>]]
             ELSE [out |-> <<>>, u |-> z.u, d |-> z.d, tr |-> z.tr,
                   chks |-> [z.chks EXCEPT ![e] = c2]]

ZipNow == [u |-> zipU, d |-> zipD, tr |-> tr, chks |-> chks]

\* zip.end(): with every added entry terminated the central directory is
\* emitted at once
ZipEnd == IF zipD = 1 THEN <<Chunk(0, "cd", 0)>> ELSE <<>>

\* ---------------------------------------------------------- the write chain
isClosingError(err) == err \in {"closing", "dropped"}

LinkSettled(ch, l) == l = 0 \/ ch[l].st # "pend"
LinkRejected(ch, l) == l > 0 /\ ch[l].st = "rej"

\* waitForWriteWindow, one evaluation of its loop condition by the caller
\* whose continuation jobs are okJob / errJob and whose loop resumes as wfwJob:
\* what is appended to the microtask queue and to the reactions of the chain
waitForWriteWindow(depth, zerr, ch, okJob, errJob, wfwJob) ==
    IF depth < WriteQueueLimit
    THEN [jobs |-> <<okJob>>, waiters |-> <<>>]
    ELSE IF zerr # "none"
         THEN [jobs |-> <<errJob>>, waiters |-> <<>>]
         ELSE IF LinkSettled(ch, Len(ch))
              THEN [jobs |-> <<wfwJob>>, waiters |-> <<>>]
              ELSE [jobs |-> <<>>,
                    waiters |-> <<[p |-> Len(ch), j |-> wfwJob]>>]

WfwEntry(depth, zerr, ch, e) ==
    waitForWriteWindow(depth, zerr, ch, Job("ent", e), Job("entErr", e),
                       Job("wfwE", e))

WfwChunk(depth, zerr, ch, k) ==
    waitForWriteWindow(depth, zerr, ch, Job("enq", k), Job("enqErr", k),
                       Job("wfwC", k))

\* the gate at the top of enqueueWrite
WriteGateClosed ==
    ~allowWrites \/ writerClosed \/ writerClosing \/ zipError # "none"

\* the Zip data callback for the chunks `out' of one push (or of zip.end()):
\* writesRequested++ and enqueueWrite up to its first await, for each chunk
DataCallback(out) ==
    LET n == Len(out)
        base == Len(emitted)
        w == [k \in 1..n |->
                WfwChunk(writeQueueDepth, zipError, chain, base + k)]
        RECURSIVE CatJobs(_), CatWaiters(_)
        CatJobs(k) == IF k > n THEN <<>> ELSE w[k].jobs \o CatJobs(k + 1)
        CatWaiters(k) ==
            IF k > n THEN <<>> ELSE w[k].waiters \o CatWaiters(k + 1)
    IN  IF WriteGateClosed
        THEN [emitted |-> emitted \o out,
              enq |-> enq \o [k \in 1..n |-> "dropped"],
              requested |-> writesRequested + n,
              zerr |-> IF n > 0 /\ zipError = "none"
                       THEN "dropped" ELSE zipError,
              jobs |-> <<>>, waiters |-> <<>>]
        ELSE [emitted |-> emitted \o out,
              enq |-> enq \o [k \in 1..n |-> "wfw"],
              requested |-> writesRequested + n,
              zerr |-> zipError,
              jobs |-> CatJobs(1), waiters |-> CatWaiters(1)]

\* SettleLink with a catch handler that rethrows without setting zipError
SettleLinkForgettingError(ch, l, ok, err, depth, zerr, shut) ==
    LET swallowed == ~ok /\ shut /\ isClosingError(err)
        fulfilled == ok \/ swallowed
    IN  [chain |-> [ch EXCEPT ![l] = [c |-> ch[l].c,
                                      st |-> IF fulfilled THEN "ok" ELSE "rej",
                                      err |-> IF fulfilled THEN "none" ELSE err]],
         depth |-> Max(0, depth - 1),
         zerr |-> zerr,
         jobs |-> SelectJobs(chWaiters, l),
         waiters |-> DropJobs(chWaiters, l)]

\* SettleLink with a finally handler that leaves writeQueueDepth alone
SettleLinkKeepingDepth(ch, l, ok, err, depth, zerr, shut) ==
    LET swallowed == ~ok /\ shut /\ isClosingError(err)
        fulfilled == ok \/ swallowed
    IN  [chain |-> [ch EXCEPT ![l] = [c |-> ch[l].c,
                                      st |-> IF fulfilled THEN "ok" ELSE "rej",
                                      err |-> IF fulfilled THEN "none" ELSE err]],
         depth |-> depth,
         zerr |-> IF fulfilled THEN zerr ELSE err,
         jobs |-> SelectJobs(chWaiters, l),
         waiters |-> DropJobs(chWaiters, l)]

\* the .catch and .finally handlers of a link of writeChain whose write (or
\* whose predecessor) has settled, and the reactions of the settled link
SettleLink(ch, l, ok, err, depth, zerr, shut) ==
    LET swallowed == ~ok /\ shut /\ isClosingError(err)
        fulfilled == ok \/ swallowed
    IN  [chain |-> [ch EXCEPT ![l] = [c |-> ch[l].c,
                                      st |-> IF fulfilled THEN "ok" ELSE "rej",
                                      err |-> IF fulfilled THEN "none" ELSE err]],
         depth |-> Max(0, depth - 1),
         zerr |-> IF fulfilled THEN zerr ELSE err,
         jobs |-> SelectJobs(chWaiters, l),
         waiters |-> DropJobs(chWaiters, l)]

\* ------------------------------------------------------------- run-time
\* synchronous stretches of streamFilesToZip that span several steps of the
\* model: nothing else runs in between
SyncPcs == {"loopTop", "afterLoop", "afterDrain", "finalize", "catch", "salvage"}
HeadIs(k, id) ==
    /\ mainPc \notin SyncPcs
    /\ jobs # <<>>
    /\ Head(jobs) = Job(k, id)
\* an event of the environment is a macrotask: the microtask queue is empty
Idle == mainPc \notin SyncPcs /\ jobs = <<>>

\* --------------------------------------------------------- addEntryToZip
\* entry.getData(): a fileStream() download for an ordinary file (settled by
\* the environment), Promise.resolve(dataToStream(..)) for a live photo part
\* (settled at once; dataToStream may throw)
GetDataCall(e, fails) ==
    IF kind[FileOf(e)] = "live"
    THEN [pc |-> "getDataQ",
          jobs |-> <<IF fails THEN Job("entErr", e) ELSE Job("ent", e)>>]
    ELSE [pc |-> "getData", jobs |-> <<>>]

\* a rejection of addEntryToZip that, after zip.add, goes back to the retry
\* loop of phase 1 while attempts are left
EntryThrowRetryingAfterAdd(e) ==
    IF addCount[e] >= 1 /\ attempt[e] < STREAM_ZIP_MAX_RETRIES
    THEN /\ ePc' = [ePc EXCEPT ![e] = "backoff"]
         /\ jobs' = Tail(jobs)
    ELSE /\ ePc' = [ePc EXCEPT ![e] = "failed"]
         /\ jobs' = Tail(jobs) \o <<Job("eCatch", e)>>

\* the rejection of addEntryToZip: the entry's promise chain of startEntry
EntryThrow(e) ==
    /\ ePc' = [ePc EXCEPT ![e] = "failed"]
    /\ jobs' = Tail(jobs) \o <<Job("eCatch", e)>>

\* the environment settles a pending fileStream() download
GetDataSettle(e) ==
    /\ Idle
    /\ ePc[e] = "getData"
    /\ \E ok \in BOOLEAN :
        /\ Outcome(ok, FileOf(e) \in env.fetch)
        /\ faulted' = IF ok THEN faulted ELSE faulted \cup {FileOf(e)}
        /\ failures' = IF ok THEN failures
                     ELSE [failures EXCEPT ![e] = @ + 1]
        /\ jobs' = <<IF ok THEN Job("ent", e) ELSE Job("entErr", e)>>
    /\ ePc' = [ePc EXCEPT ![e] = "getDataQ"]
    /\ UNCHANGED <<vIn, vMain, vFlags, vCnt, vChain, vEmit,
                   vSink, vPrep, vZip, vFile, attempt, reads, eLink,
                   getDataCalls, addCount, retries, retryCount,
                   inFlightEntries, pState, pWaiters, entryFailure,
                   entriesAddedToZip, entriesCompletedInZip>>

\* the catch of phase 1 with a retry loop that runs one attempt too many
GetDataRejectedOneMoreAttempt(e) ==
    /\ HeadIs("entErr", e)
    /\ ePc[e] = "getDataQ"
    /\ IF signalAborted \/ attempt[e] > STREAM_ZIP_MAX_RETRIES
       THEN /\ EntryThrow(e)
            /\ UNCHANGED <<retries, retryCount>>
       ELSE /\ retryCount' = retryCount + 1
            /\ retries' = [retries EXCEPT ![e] = @ + 1]
            /\ ePc' = [ePc EXCEPT ![e] = "backoff"]
            /\ jobs' = Tail(jobs)
    /\ UNCHANGED <<vEnv, vMain, vFlags, vCnt, vChain, vEmit, vSink, vPrep,
                   vZip, vFile, attempt, reads, eLink, getDataCalls, addCount,
                   inFlightEntries, pState, pWaiters, entryFailure,
                   entriesAddedToZip, entriesCompletedInZip>>

\* phase 1, catch: rethrow on cancellation, back off and retry while
\* attempt < STREAM_ZIP_MAX_RETRIES, give up after the last attempt
GetDataRejected(e) ==
    /\ HeadIs("entErr", e)
    /\ ePc[e] = "getDataQ"
    /\ IF signalAborted \/ attempt[e] >= STREAM_ZIP_MAX_RETRIES
       THEN /\ EntryThrow(e)
            /\ UNCHANGED <<retries, retryCount>>
       ELSE /\ retryCount' = retryCount + 1
            /\ retries' = [retries EXCEPT ![e] = @ + 1]
            /\ ePc' = [ePc EXCEPT ![e] = "backoff"]
            /\ jobs' = Tail(jobs)
    /\ UNCHANGED <<vEnv, vMain, vFlags, vCnt, vChain, vEmit, vSink, vPrep,
                   vZip, vFile, attempt, reads, eLink, getDataCalls, addCount,
                   inFlightEntries, pState, pWaiters, entryFailure,
                   entriesAddedToZip, entriesCompletedInZip>>

\* wait(STREAM_ZIP_RETRY_DELAY_MS * attempt) elapses: the next attempt
BackoffElapsed(e) ==
    /\ Idle
    /\ ePc[e] = "backoff"
    /\ \E fails \in BOOLEAN :
        /\ Outcome(~fails, kind[FileOf(e)] = "live" /\ FileOf(e) \in env.conv)
        /\ faulted' = IF ~fails THEN faulted ELSE faulted \cup {FileOf(e)}
        /\ failures' = IF ~fails THEN failures
                     ELSE [failures EXCEPT ![e] = @ + 1]
        /\ LET g == GetDataCall(e, fails)
           IN  /\ ePc' = [ePc EXCEPT ![e] = g.pc]
               /\ jobs' = g.jobs
    /\ attempt' = [attempt EXCEPT ![e] = @ + 1]
    /\ getDataCalls' = [getDataCalls EXCEPT ![e] = @ + 1]
    /\ UNCHANGED <<vIn, vMain, vFlags, vCnt, vChain, vEmit,
                   vSink, vPrep, vZip, vFile, reads, eLink, addCount, retries,
                   retryCount, inFlightEntries, pState, pWaiters, entryFailure,
                   entriesAddedToZip, entriesCompletedInZip>>

\* phase 2 begins: zip.add(passThrough), entriesAddedToZip++, first read();
\* a read() of a stream that has its data at hand settles without a macrotask
GetDataResolved(e) ==
    /\ HeadIs("ent", e)
    /\ ePc[e] = "getDataQ"
    /\ LET z == ZipAdd(e)
       IN  /\ zipU' = z.u
           /\ zipD' = z.d
           /\ tr' = z.tr
           /\ chks' = z.chks
    /\ entriesAddedToZip' = entriesAddedToZip + 1
    /\ addCount' = [addCount EXCEPT ![e] = @ + 1]
    /\ \E now \in BOOLEAN :
        /\ ePc' = [ePc EXCEPT ![e] = IF now THEN "readQ" ELSE "read"]
        /\ jobs' = Tail(jobs) \o (IF now THEN <<Job("ent", e)>> ELSE <<>>)
    /\ UNCHANGED <<vEnv, vMain, vFlags, vCnt, vChain, vEmit, vSink, vPrep,
                   vFile, attempt, reads, eLink, getDataCalls, retries,
                   retryCount, inFlightEntries, pState, pWaiters, entryFailure,
                   entriesCompletedInZip>>

\* the environment settles a pending reader.read()
ReadSettle(e) ==
    /\ Idle
    /\ ePc[e] = "read"
    /\ \E ok \in BOOLEAN :
        /\ Outcome(ok, FileOf(e) \in env.read)
        /\ faulted' = IF ok THEN faulted ELSE faulted \cup {FileOf(e)}
        /\ UNCHANGED failures
        /\ jobs' = <<IF ok THEN Job("ent", e) ELSE Job("entErr", e)>>
    /\ ePc' = [ePc EXCEPT ![e] = "readQ"]
    /\ UNCHANGED <<vIn, vMain, vFlags, vCnt, vChain, vEmit,
                   vSink, vPrep, vZip, vFile, attempt, reads, eLink,
                   getDataCalls, addCount, retries, retryCount,
                   inFlightEntries, pState, pWaiters, entryFailure,
                   entriesAddedToZip, entriesCompletedInZip>>

\* after `await reader.read()': done -> waitForWriteWindow before the final
\* push; a value -> cancellation check, then waitForWriteWindow before push
ReadResolved(e) ==
    /\ HeadIs("ent", e)
    /\ ePc[e] = "readQ"
    /\ IF reads[e] < DataChunks /\ signalAborted
       THEN /\ EntryThrow(e)
            /\ UNCHANGED chWaiters
       ELSE LET w == WfwEntry(writeQueueDepth, zipError, chain, e)
            IN  /\ ePc' = [ePc EXCEPT ![e] = IF reads[e] < DataChunks
                                             THEN "wfwDat" ELSE "wfwFin"]
                /\ jobs' = Tail(jobs) \o w.jobs
                /\ chWaiters' = chWaiters \o w.waiters
    /\ UNCHANGED <<vEnv, vMain, vFlags, vCnt, chain, vEmit, vSink, vPrep,
                   vZip, vFile, attempt, reads, eLink, getDataCalls, addCount,
                   retries, retryCount, inFlightEntries, pState, pWaiters,
                   entryFailure, entriesAddedToZip, entriesCompletedInZip>>

\* an await inside phase 2 throws (a failed read, zipError thrown by
\* waitForWriteWindow): the finally cancels the reader, the entry rejects
EntryAwaitThrew(e) ==
    /\ HeadIs("entErr", e)
    /\ ePc[e] \in {"readQ", "wfwDat", "wfwFin"}
    /\ EntryThrow(e)
    /\ UNCHANGED <<vEnv, vMain, vFlags, vCnt, vChain, vEmit, vSink, vPrep,
                   vZip, vFile, attempt, reads, eLink, getDataCalls, addCount,
                   retries, retryCount, inFlightEntries, pState, pWaiters,
                   entryFailure, entriesAddedToZip, entriesCompletedInZip>>

\* the loop of waitForWriteWindow resumes after `await writeChain' (whose
\* rejection it ignores), for an entry
WfwEntryResume(e) ==
    /\ HeadIs("wfwE", e)
    /\ LET w == WfwEntry(writeQueueDepth, zipError, chain, e)
       IN  /\ jobs' = Tail(jobs) \o w.jobs
           /\ chWaiters' = chWaiters \o w.waiters
    /\ UNCHANGED <<vEnv, vMain, vFlags, vCnt, chain, vEmit, vSink, vPrep,
                   vEnt, vZip, vFile>>

\* passThrough.push(value) of the read loop, then `if (zipError) throw',
\* then the next reader.read()
PushChunk(e) ==
    /\ HeadIs("ent", e)
    /\ ePc[e] = "wfwDat"
    /\ LET z == ZipPush(ZipNow, e, <<Chunk(e, "dat", reads[e] + 1)>>, FALSE)
           d == DataCallback(z.out)
       IN  /\ zipD' = z.d
           /\ tr' = z.tr
           /\ chks' = z.chks
           /\ emitted' = d.emitted
           /\ enq' = d.enq
           /\ writesRequested' = d.requested
           /\ zipError' = d.zerr
           /\ chWaiters' = chWaiters \o d.waiters
           /\ IF d.zerr # "none"
              THEN /\ ePc' = [ePc EXCEPT ![e] = "failed"]
                   /\ jobs' = Tail(jobs) \o d.jobs \o <<Job("eCatch", e)>>
                   /\ UNCHANGED reads
              ELSE /\ reads' = [reads EXCEPT ![e] = @ + 1]
                   /\ \E now \in BOOLEAN :
                       /\ ePc' = [ePc EXCEPT ![e] =
                                     IF now THEN "readQ" ELSE "read"]
                       /\ jobs' = Tail(jobs) \o d.jobs \o
                                  (IF now THEN <<Job("ent", e)>> ELSE <<>>)
    /\ UNCHANGED <<vEnv, vMain, vFlags, writesQueued, writeQueueDepth, chain,
                   vSink, vPrep, vFile, zipU, attempt, eLink, getDataCalls,
                   addCount, retries, retryCount, inFlightEntries, pState,
                   pWaiters, entryFailure, entriesAddedToZip,
                   entriesCompletedInZip>>

\* passThrough.push(new Uint8Array(0), true), then `await writeChain': the
\* promise awaited is the chain as it is when the push returns
PushFinal(e) ==
    /\ HeadIs("ent", e)
    /\ ePc[e] = "wfwFin"
    /\ LET z == ZipPush(ZipNow, e, <<Chunk(e, "fin", 0)>>, TRUE)
           d == DataCallback(z.out)
           tail == Len(chain)
       IN  /\ zipD' = z.d
           /\ tr' = z.tr
           /\ chks' = z.chks
           /\ emitted' = d.emitted
           /\ enq' = d.enq
           /\ writesRequested' = d.requested
           /\ zipError' = d.zerr
           /\ eLink' = [eLink EXCEPT ![e] = tail]
           /\ IF LinkSettled(chain, tail)
              THEN /\ jobs' = Tail(jobs) \o d.jobs \o <<Job("ent", e)>>
                   /\ chWaiters' = chWaiters \o d.waiters
              ELSE /\ jobs' = Tail(jobs) \o d.jobs
                   /\ chWaiters' = chWaiters \o d.waiters \o
                                   <<[p |-> tail, j |-> Job("ent", e)]>>
    /\ ePc' = [ePc EXCEPT ![e] = "awaitChain"]
    /\ UNCHANGED <<vEnv, vMain, vFlags, writesQueued, writeQueueDepth, chain,
                   vSink, vPrep, vFile, zipU, attempt, reads, getDataCalls,
                   addCount, retries, retryCount, inFlightEntries, pState,
                   pWaiters, entryFailure, entriesAddedToZip,
                   entriesCompletedInZip>>

\* the end of addEntryToZip without `entriesCompletedInZip++'
EntryAwaitChainNoCount(e) ==
    /\ HeadIs("ent", e)
    /\ ePc[e] = "awaitChain"
    /\ IF LinkRejected(chain, eLink[e]) \/ zipError # "none"
       THEN EntryThrow(e)
       ELSE /\ ePc' = [ePc EXCEPT ![e] = "done"]
            /\ jobs' = Tail(jobs) \o <<Job("eCatch", e)>>
    /\ UNCHANGED <<vEnv, vMain, vFlags, vCnt, vChain, vEmit, vSink, vPrep,
                   vZip, vFile, attempt, reads, eLink, getDataCalls, addCount,
                   retries, retryCount, inFlightEntries, pState, pWaiters,
                   entryFailure, entriesAddedToZip, entriesCompletedInZip>>

\* after `await writeChain': `if (zipError) throw zipError;
\* entriesCompletedInZip++'
EntryAwaitChain(e) ==
    /\ HeadIs("ent", e)
    /\ ePc[e] = "awaitChain"
    /\ IF LinkRejected(chain, eLink[e]) \/ zipError # "none"
       THEN /\ EntryThrow(e)
            /\ UNCHANGED entriesCompletedInZip
       ELSE /\ entriesCompletedInZip' = entriesCompletedInZip + 1
            /\ ePc' = [ePc EXCEPT ![e] = "done"]
            /\ jobs' = Tail(jobs) \o <<Job("eCatch", e)>>
    /\ UNCHANGED <<vEnv, vMain, vFlags, vCnt, vChain, vEmit, vSink, vPrep,
                   vZip, vFile, attempt, reads, eLink, getDataCalls, addCount,
                   retries, retryCount, inFlightEntries, pState, pWaiters,
                   entryFailure, entriesAddedToZip>>

\* ----------------------------------------------------------- enqueueWrite
\* after `await waitForWriteWindow()': `if (zipError) return', else the
\* chunk becomes the next link of writeChain
EnqueueResume(k) ==
    /\ HeadIs("enq", k)
    /\ IF zipError # "none"
       THEN /\ enq' = [enq EXCEPT ![k] = "dropped"]
            /\ jobs' = Tail(jobs)
            /\ UNCHANGED <<writeQueueDepth, writesQueued, chain, chWaiters>>
       ELSE LET l == Len(chain) + 1
            IN  /\ enq' = [enq EXCEPT ![k] = "queued"]
                /\ writeQueueDepth' = writeQueueDepth + 1
                /\ writesQueued' = writesQueued + 1
                /\ chain' = Append(chain, [c |-> k, st |-> "pend",
                                           err |-> "none"])
                /\ IF LinkSettled(chain, l - 1)
                   THEN /\ jobs' = Tail(jobs) \o <<Job("write", l)>>
                        /\ UNCHANGED chWaiters
                   ELSE /\ jobs' = Tail(jobs)
                        /\ chWaiters' = Append(chWaiters,
                                               [p |-> l - 1,
                                                j |-> Job("write", l)])
    /\ UNCHANGED <<vEnv, vMain, vFlags, writesRequested, zipError, emitted,
                   vSink, vPrep, vEnt, vZip, vFile>>

\* waitForWriteWindow threw zipError inside enqueueWrite: the chunk is lost
EnqueueThrew(k) ==
    /\ HeadIs("enqErr", k)
    /\ enq' = [enq EXCEPT ![k] = "dropped"]
    /\ jobs' = Tail(jobs)
    /\ UNCHANGED <<vEnv, vMain, vFlags, vCnt, vChain, emitted, vSink, vPrep,
                   vEnt, vZip, vFile>>

\* the loop of waitForWriteWindow resumes inside enqueueWrite
WfwChunkResume(k) ==
    /\ HeadIs("wfwC", k)
    /\ LET w == WfwChunk(writeQueueDepth, zipError, chain, k)
       IN  /\ jobs' = Tail(jobs) \o w.jobs
           /\ chWaiters' = chWaiters \o w.waiters
    /\ UNCHANGED <<vEnv, vMain, vFlags, vCnt, chain, vEmit, vSink, vPrep,
                   vEnt, vZip, vFile>>

\* writer.write(data) on the sink as it is: pending on an open stream,
\* rejected at once on a closing, closed or errored one
WriterWrite ==
    IF sinkState = "open" THEN "pending"
    ELSE IF sinkState \in {"closing", "closed"} THEN "closing"
    ELSE "other"

\* the .then(() => writer.write(data)) of link l runs (its predecessor has
\* settled); a rejected predecessor skips the write and goes to the .catch
RunWrite(l) ==
    /\ HeadIs("write", l)
    /\ IF LinkRejected(chain, l - 1)
       THEN LET r == SettleLink(chain, l, FALSE, chain[l - 1].err,
                                writeQueueDepth, zipError, shuttingDown)
            IN  /\ chain' = r.chain
                /\ writeQueueDepth' = r.depth
                /\ zipError' = r.zerr
                /\ jobs' = Tail(jobs) \o r.jobs
                /\ chWaiters' = r.waiters
                /\ UNCHANGED <<writeCalls, sinkInflight>>
       ELSE /\ writeCalls' = Append(writeCalls, chain[l].c)
            /\ IF WriterWrite = "pending"
               THEN /\ sinkInflight' = l
                    /\ jobs' = Tail(jobs)
                    /\ UNCHANGED <<chain, writeQueueDepth, zipError, chWaiters>>
               ELSE LET r == SettleLink(chain, l, FALSE, WriterWrite,
                                        writeQueueDepth, zipError,
                                        shuttingDown)
                    IN  /\ chain' = r.chain
                        /\ writeQueueDepth' = r.depth
                        /\ zipError' = r.zerr
                        /\ jobs' = Tail(jobs) \o r.jobs
                        /\ chWaiters' = r.waiters
                        /\ UNCHANGED sinkInflight
    /\ UNCHANGED <<vEnv, vMain, vFlags, writesRequested, writesQueued, vEmit,
                   sinkState, written, closeCalls, abortCalls, vPrep, vEnt,
                   vZip, vFile>>

\* the sink settles the write in flight
SinkWriteSettle ==
    /\ Idle
    /\ sinkInflight # 0
    /\ \E ok \in BOOLEAN :
        /\ Outcome(ok, env.sink)
        /\ faulted' = IF ok THEN faulted ELSE faulted \cup {0}
        /\ UNCHANGED failures
        /\ written' = IF ok THEN written \cup {chain[sinkInflight].c}
                      ELSE written
        /\ sinkState' = IF ~ok /\ sinkState = "open" THEN "errored"
                        ELSE sinkState
        /\ LET r == SettleLink(chain, sinkInflight, ok, "other",
                               writeQueueDepth, zipError, shuttingDown)
           IN  /\ chain' = r.chain
               /\ writeQueueDepth' = r.depth
               /\ zipError' = r.zerr
               /\ jobs' = r.jobs
               /\ chWaiters' = r.waiters
    /\ sinkInflight' = 0
    /\ UNCHANGED <<vIn, vMain, vFlags, writesRequested,
                   writesQueued, vEmit, writeCalls, closeCalls, abortCalls,
                   vPrep, vEnt, vZip, vFile>>

\* ------------------------------------------------- startEntry's promise p
RECURSIVE SeqWithout(_, _)
SeqWithout(q, x) ==
    IF q = <<>> THEN <<>>
    ELSE IF Head(q) = x THEN SeqWithout(Tail(q), x)
         ELSE <<Head(q)>> \o SeqWithout(Tail(q), x)

RECURSIVE DropKind(_, _)
\* reactions of a promise that has been settled by another of its inputs do
\* nothing when they run: they are left out
DropKind(ws, k) ==
    IF ws = <<>> THEN <<>>
    ELSE IF Head(ws).j.k = k THEN DropKind(Tail(ws), k)
         ELSE <<Head(ws)>> \o DropKind(Tail(ws), k)

\* .catch((e) => { entryFailure = entryFailure ?? e; throw e })
EntryCatch(e) ==
    /\ HeadIs("eCatch", e)
    /\ entryFailure' = (entryFailure \/ ePc[e] = "failed")
    /\ jobs' = Tail(jobs) \o <<Job("eFin", e)>>
    /\ UNCHANGED <<vEnv, vMain, vFlags, vCnt, vChain, vEmit, vSink, vPrep,
                   vZip, vFile, ePc, attempt, reads, eLink, getDataCalls,
                   addCount, retries, retryCount, inFlightEntries, pState,
                   pWaiters, entriesAddedToZip, entriesCompletedInZip>>

\* .finally(() => { inFlightEntries.delete(p) })
EntryFinally(e) ==
    /\ HeadIs("eFin", e)
    /\ inFlightEntries' = SeqWithout(inFlightEntries, e)
    /\ jobs' = Tail(jobs) \o <<Job("eSet", e)>>
    /\ UNCHANGED <<vEnv, vMain, vFlags, vCnt, vChain, vEmit, vSink, vPrep,
                   vZip, vFile, ePc, attempt, reads, eLink, getDataCalls,
                   addCount, retries, retryCount, pState, pWaiters,
                   entryFailure, entriesAddedToZip, entriesCompletedInZip>>

\* p settles: its reactions are queued in registration order
EntrySettled(e) ==
    /\ HeadIs("eSet", e)
    /\ pState' = [pState EXCEPT ![e] = IF ePc[e] = "done" THEN "ok" ELSE "rej"]
    /\ jobs' = Tail(jobs) \o SelectJobs(pWaiters, e)
    /\ pWaiters' = DropJobs(pWaiters, e)
    /\ UNCHANGED <<vEnv, vMain, vFlags, vCnt, vChain, vEmit, vSink, vPrep,
                   vZip, vFile, ePc, attempt, reads, eLink, getDataCalls,
                   addCount, retries, retryCount, inFlightEntries,
                   entryFailure, entriesAddedToZip, entriesCompletedInZip>>

\* waitForEntrySlot, one evaluation of its loop condition: return (main
\* resumes a tick later) or await Promise.race(inFlightEntries)
waitForEntrySlot(inFlight, target) ==
    IF Len(inFlight) >= target
    THEN [jobs |-> <<>>,
          waiters |-> [n \in 1..Len(inFlight) |->
                          [p |-> inFlight[n], j |-> Job("race", inFlight[n])]],
          racing |-> TRUE]
    ELSE [jobs |-> <<Job("main", 1)>>, waiters |-> <<>>, racing |-> FALSE]

\* the reaction of Promise.race on p: the first one settles the race
RaceReaction(e) ==
    /\ HeadIs("race", e)
    /\ IF racePending
       THEN /\ racePending' = FALSE
            /\ pWaiters' = DropKind(pWaiters, "race")
            /\ jobs' = Tail(jobs) \o
                       <<Job("wfes", IF pState[e] = "ok" THEN 1 ELSE 0)>>
       ELSE /\ jobs' = Tail(jobs)
            /\ UNCHANGED <<racePending, pWaiters>>
    /\ UNCHANGED <<vEnv, mainPc, idx, sub, result, lastCompletedIndex, asLeft,
                   flushLast, vFlags, vCnt, vChain, vEmit, vSink, vPrep, vZip,
                   vFile, ePc, attempt, reads, eLink, getDataCalls, addCount,
                   retries, retryCount, inFlightEntries, pState, entryFailure,
                   entriesAddedToZip, entriesCompletedInZip>>

\* waitForEntrySlot resumes after `await Promise.race(..)': a rejected race
\* throws out of waitForEntrySlot, a fulfilled one re-evaluates the loop
EntrySlotResume(ok) ==
    /\ HeadIs("wfes", ok)
    /\ IF ok = 0
       THEN /\ jobs' = Tail(jobs) \o <<Job("mainErr", 0)>>
            /\ UNCHANGED <<racePending, pWaiters>>
       ELSE LET w == waitForEntrySlot(inFlightEntries, targetConcurrency)
            IN  /\ jobs' = Tail(jobs) \o w.jobs
                /\ pWaiters' = pWaiters \o w.waiters
                /\ racePending' = w.racing
    /\ UNCHANGED <<vEnv, mainPc, idx, sub, result, lastCompletedIndex, asLeft,
                   flushLast, vFlags, vCnt, vChain, vEmit, vSink, vPrep, vZip,
                   vFile, ePc, attempt, reads, eLink, getDataCalls, addCount,
                   retries, retryCount, inFlightEntries, pState, entryFailure,
                   entriesAddedToZip, entriesCompletedInZip>>

\* the reaction of Promise.allSettled([...inFlightEntries]) on p
AllSettledReaction(e) ==
    /\ HeadIs("as", e)
    /\ asLeft' = asLeft \ {e}
    /\ jobs' = Tail(jobs) \o
               (IF asLeft \ {e} = {} THEN <<Job("main", 1)>> ELSE <<>>)
    /\ UNCHANGED <<vEnv, mainPc, idx, sub, result, lastCompletedIndex,
                   flushLast, racePending, vFlags, vCnt, vChain, vEmit, vSink,
                   vPrep, vEnt, vZip, vFile>>

\* a fileCompletions reaction that fulfils with the first entry promise that
\* fulfils (Promise.any in place of Promise.all)
AllReactionAny(e) ==
    /\ HeadIs("all", e)
    /\ LET f == FileOf(e)
       IN  IF allState[f] # "pend"
           THEN /\ jobs' = Tail(jobs)
                /\ UNCHANGED <<allState, allLeft>>
           ELSE IF pState[e] = "rej"
           THEN /\ allState' = [allState EXCEPT ![f] = "rej"]
                /\ jobs' = Tail(jobs) \o <<Job("fileRej", f)>>
                /\ UNCHANGED allLeft
           ELSE /\ allLeft' = [allLeft EXCEPT ![f] = @ - 1]
                /\ allState' = [allState EXCEPT ![f] = "ok"]
                /\ jobs' = Tail(jobs) \o <<Job("fileOk", f)>>
    /\ UNCHANGED <<vEnv, vMain, vFlags, vCnt, vChain, vEmit, vSink, vPrep,
                   vEnt, vZip, fcSettled, succCalls, failCalls>>

\* ------------------------------------------------------- fileCompletions
\* the reaction of Promise.all(entryPromises) on p
AllReaction(e) ==
    /\ HeadIs("all", e)
    /\ LET f == FileOf(e)
       IN  IF allState[f] # "pend"
           THEN /\ jobs' = Tail(jobs)
                /\ UNCHANGED <<allState, allLeft>>
           ELSE IF pState[e] = "rej"
           THEN /\ allState' = [allState EXCEPT ![f] = "rej"]
                /\ jobs' = Tail(jobs) \o <<Job("fileRej", f)>>
                /\ UNCHANGED allLeft
           ELSE /\ allLeft' = [allLeft EXCEPT ![f] = @ - 1]
                /\ IF allLeft[f] = 1
                   THEN /\ allState' = [allState EXCEPT ![f] = "ok"]
                        /\ jobs' = Tail(jobs) \o <<Job("fileOk", f)>>
                   ELSE /\ jobs' = Tail(jobs)
                        /\ UNCHANGED allState
    /\ UNCHANGED <<vEnv, vMain, vFlags, vCnt, vChain, vEmit, vSink, vPrep,
                   vEnt, vZip, fcSettled, succCalls, failCalls>>

\* the rejection of Promise.all passes through .then(..) to .catch(..)
FileRejectPass(f) ==
    /\ HeadIs("fileRej", f)
    /\ jobs' = Tail(jobs) \o <<Job("fileFail", f)>>
    /\ UNCHANGED <<vEnv, vMain, vFlags, vCnt, vChain, vEmit, vSink, vPrep,
                   vEnt, vZip, vFile>>

\* main resumes from `await Promise.allSettled(fileCompletions)' when the
\* last of them settles
FcWake(fc) ==
    IF mainPc = "drain2" /\ \A g \in Files : allState[g] # "none" => fc[g]
    THEN <<Job("main", 1)>> ELSE <<>>

\* .then(() => onFileSuccess(file, prepared.entryCount))
FileSuccess(f) ==
    /\ HeadIs("fileOk", f)
    /\ succCalls' = [succCalls EXCEPT ![f] = @ + 1]
    /\ fcSettled' = [fcSettled EXCEPT ![f] = TRUE]
    /\ jobs' = Tail(jobs) \o FcWake([fcSettled EXCEPT ![f] = TRUE])
    /\ UNCHANGED <<vEnv, vMain, vFlags, vCnt, vChain, vEmit, vSink, vPrep,
                   vEnt, vZip, allLeft, allState, failCalls>>

\* .catch((e) => { failedFileIds.push(file.id); onFileFailure(file, e) })
FileFailure(f) ==
    /\ HeadIs("fileFail", f)
    /\ failCalls' = [failCalls EXCEPT ![f] = @ + 1]
    /\ fcSettled' = [fcSettled EXCEPT ![f] = TRUE]
    /\ jobs' = Tail(jobs) \o FcWake([fcSettled EXCEPT ![f] = TRUE])
    /\ UNCHANGED <<vEnv, vMain, vFlags, vCnt, vChain, vEmit, vSink, vPrep,
                   vEnt, vZip, allLeft, allState, succCalls>>

RECURSIVE scheduleNextOneMore(_, _, _, _)
\* scheduleNext with `active <= allowed' as its loop condition
scheduleNextOneMore(ps, nx, ac, allowed) ==
    IF nx <= numFiles /\ ac <= allowed
    THEN LET rest == scheduleNextOneMore(
                        [ps EXCEPT ![nx] = IF kind[nx] = "live" THEN "blob"
                                           ELSE "ok"],
                        nx + 1, ac + 1, allowed)
         IN  [ps |-> rest.ps, nx |-> rest.nx, ac |-> rest.ac,
              jobs |-> (IF kind[nx] = "live" THEN <<>>
                        ELSE <<Job("prepFin", nx)>>) \o rest.jobs]
    ELSE [ps |-> ps, nx |-> nx, ac |-> ac, jobs |-> <<>>]

\* ------------------------------------------------- prepareFile, scheduleNext
RECURSIVE scheduleNext(_, _, _, _)
\* while (nextToSchedule < files.length && active < allowed): start
\* prepareFile, which for an ordinary file returns without awaiting and for a
\* live photo awaits downloadManager.fileBlob
scheduleNext(ps, nx, ac, allowed) ==
    IF nx <= numFiles /\ ac < allowed
    THEN LET rest == scheduleNext(
                        [ps EXCEPT ![nx] = IF kind[nx] = "live" THEN "blob"
                                           ELSE "ok"],
                        nx + 1, ac + 1, allowed)
         IN  [ps |-> rest.ps, nx |-> rest.nx, ac |-> rest.ac,
              jobs |-> (IF kind[nx] = "live" THEN <<>>
                        ELSE <<Job("prepFin", nx)>>) \o rest.jobs]
    ELSE [ps |-> ps, nx |-> nx, ac |-> ac, jobs |-> <<>>]

\* downloadManager.fileBlob settles: `if (signal.aborted) return null', then
\* decodeLivePhoto; a failure is reported by the catch of prepareFile
BlobSettle(f) ==
    /\ Idle
    /\ prepState[f] = "blob"
    /\ \E ok \in BOOLEAN :
        /\ Outcome(ok, f \in env.prep)
        /\ faulted' = IF ok THEN faulted ELSE faulted \cup {f}
        /\ UNCHANGED failures
        /\ failCalls' = IF ok THEN failCalls
                        ELSE [failCalls EXCEPT ![f] = @ + 1]
        /\ prepState' = [prepState EXCEPT ![f] =
                            IF ok /\ ~signalAborted THEN "decode" ELSE "null"]
        /\ jobs' = IF ok /\ ~signalAborted THEN <<>>
                   ELSE <<Job("prepFin", f)>>
    /\ UNCHANGED <<vIn, vMain, vFlags, vCnt, vChain, vEmit,
                   vSink, prepSettled, nextToSchedule, active,
                   targetConcurrency, vEnt, vZip, allLeft, allState,
                   fcSettled, succCalls>>

\* decodeLivePhoto settles: the two entries, or the catch of prepareFile
DecodeSettle(f) ==
    /\ Idle
    /\ prepState[f] = "decode"
    /\ \E ok \in BOOLEAN :
        /\ Outcome(ok, f \in env.prep)
        /\ faulted' = IF ok THEN faulted ELSE faulted \cup {f}
        /\ UNCHANGED failures
        /\ failCalls' = IF ok THEN failCalls
                        ELSE [failCalls EXCEPT ![f] = @ + 1]
        /\ prepState' = [prepState EXCEPT ![f] = IF ok THEN "ok" ELSE "null"]
    /\ jobs' = <<Job("prepFin", f)>>
    /\ UNCHANGED <<vIn, vMain, vFlags, vCnt, vChain, vEmit,
                   vSink, prepSettled, nextToSchedule, active,
                   targetConcurrency, vEnt, vZip, allLeft, allState,
                   fcSettled, succCalls>>

\* the finally of prepareFile(file) after which preparedPromises[index] wakes
\* nobody
PrepareFinallyWakesNobody(f) ==
    /\ HeadIs("prepFin", f)
    /\ LET r == scheduleNext(prepState, nextToSchedule, active - 1,
                             targetConcurrency)
       IN  /\ prepState' = r.ps
           /\ nextToSchedule' = r.nx
           /\ active' = r.ac
           /\ jobs' = Tail(jobs) \o r.jobs
    /\ prepSettled' = [prepSettled EXCEPT ![f] = TRUE]
    /\ UNCHANGED <<vEnv, vMain, vFlags, vCnt, vChain, vEmit, vSink,
                   targetConcurrency, vEnt, vZip, vFile>>

\* the finally of prepareFile(file) without its call of scheduleNext()
PrepareFinallyNoSchedule(f) ==
    /\ HeadIs("prepFin", f)
    /\ active' = active - 1
    /\ jobs' = Tail(jobs) \o
               (IF mainPc = "awaitPrepared" /\ idx = f
                THEN <<Job("main", 1)>> ELSE <<>>)
    /\ prepSettled' = [prepSettled EXCEPT ![f] = TRUE]
    /\ UNCHANGED <<vEnv, vMain, vFlags, vCnt, vChain, vEmit, vSink, prepState,
                   nextToSchedule, targetConcurrency, vEnt, vZip, vFile>>

\* prepareFile(file).finally(() => { active--; scheduleNext() }); then
\* preparedPromises[index] settles and wakes the main loop if it awaits it
PrepareFinally(f) ==
    /\ HeadIs("prepFin", f)
    /\ LET r == scheduleNext(prepState, nextToSchedule, active - 1,
                             targetConcurrency)
       IN  /\ prepState' = r.ps
           /\ nextToSchedule' = r.nx
           /\ active' = r.ac
           /\ jobs' = Tail(jobs) \o r.jobs \o
                      (IF mainPc = "awaitPrepared" /\ idx = f
                       THEN <<Job("main", 1)>> ELSE <<>>)
    /\ prepSettled' = [prepSettled EXCEPT ![f] = TRUE]
    /\ UNCHANGED <<vEnv, vMain, vFlags, vCnt, vChain, vEmit, vSink,
                   targetConcurrency, vEnt, vZip, vFile>>

\* an abortWriter() that only sets the flags and leaves the sink alone
AbortWriterFlagsOnly ==
    IF writerClosed
    THEN UNCHANGED <<vFlags, sinkState, abortCalls>>
    ELSE /\ shuttingDown' = TRUE
         /\ writerClosing' = TRUE
         /\ writerClosed' = TRUE
         /\ UNCHANGED <<allowWrites, sinkState, abortCalls>>

\* ------------------------------------------------------------ the writer
\* abortWriter()
AbortWriter ==
    IF writerClosed
    THEN UNCHANGED <<vFlags, sinkState, abortCalls>>
    ELSE /\ shuttingDown' = TRUE
         /\ writerClosing' = TRUE
         /\ writerClosed' = TRUE
         /\ abortCalls' = abortCalls + 1
         /\ sinkState' = IF sinkState \in {"open", "closing"} THEN "aborted"
                         ELSE sinkState
         /\ UNCHANGED allowWrites

\* closeWriter() up to `await writer.close()': close() is pending on an open
\* stream and rejects at once (caught and logged) on an errored one
CloseWriter ==
    IF writerClosed \/ writerClosing
    THEN /\ jobs' = Tail(jobs) \o <<Job("main", 1)>>
         /\ UNCHANGED <<writerClosed, writerClosing, shuttingDown, sinkState,
                        closeCalls>>
    ELSE /\ shuttingDown' = TRUE
         /\ writerClosing' = TRUE
         /\ closeCalls' = closeCalls + 1
         /\ sinkState' = IF sinkState = "open" THEN "closing" ELSE sinkState
         /\ jobs' = Tail(jobs) \o
                    (IF sinkState = "open" THEN <<>> ELSE <<Job("main", 1)>>)
         /\ UNCHANGED writerClosed

\* the sink settles writer.close(): writerClosed = true, or the catch of
\* closeWriter
CloseSettle ==
    /\ Idle
    /\ sinkState = "closing"
    /\ sinkInflight = 0
    /\ \E ok \in BOOLEAN :
        /\ Outcome(ok, env.sink)
        /\ faulted' = IF ok THEN faulted ELSE faulted \cup {0}
        /\ UNCHANGED failures
        /\ sinkState' = IF ok THEN "closed" ELSE "errored"
        /\ writerClosed' = ok
    /\ jobs' = <<Job("main", 1)>>
    /\ UNCHANGED <<vIn, vMain, allowWrites, writerClosing,
                   shuttingDown, vCnt, vChain, vEmit, sinkInflight, writeCalls,
                   written, closeCalls, abortCalls, vPrep, vEnt, vZip, vFile>>

\* flushWrites: `lastChain = writeChain; await lastChain'
FlushAwait(ch) ==
    IF LinkSettled(ch, Len(ch))
    THEN [jobs |-> <<Job("flush", 0)>>, waiters |-> <<>>]
    ELSE [jobs |-> <<>>, waiters |-> <<[p |-> Len(ch), j |-> Job("flush", 0)]>>]

\* flushWrites resumes: a rejected chain throws, a chain that has grown is
\* awaited again, otherwise flushWrites returns
FlushResume ==
    /\ HeadIs("flush", 0)
    /\ IF LinkRejected(chain, flushLast)
       THEN /\ jobs' = Tail(jobs) \o <<Job("mainErr", 0)>>
            /\ UNCHANGED <<flushLast, chWaiters>>
       ELSE IF flushLast # Len(chain)
       THEN /\ flushLast' = Len(chain)
            /\ jobs' = Tail(jobs) \o FlushAwait(chain).jobs
            /\ chWaiters' = chWaiters \o FlushAwait(chain).waiters
       ELSE /\ jobs' = Tail(jobs) \o <<Job("main", 1)>>
            /\ UNCHANGED <<flushLast, chWaiters>>
    /\ UNCHANGED <<vEnv, mainPc, idx, sub, result, lastCompletedIndex, asLeft,
                   racePending, vFlags, vCnt, chain, vEmit, vSink, vPrep, vEnt,
                   vZip, vFile>>

\* the main loop is waiting in an iteration, the files before that
\* iteration's have been written completely and no entry of a later file has
\* been started
BetweenFiles ==
    \E m \in 1..(numFiles - 1) :
        /\ mainPc \in {"awaitPrepared", "awaitSlot"}
        /\ idx = m + 1
        /\ \A e \in Entries :
              FileOf(e) <= m /\ e \in EntriesOf(FileOf(e))
                => /\ ePc[e] = "done"
                   /\ chks[e] = <<>>
                   /\ \A k \in 1..Len(emitted) :
                         emitted[k].e = e => k \in written
        /\ \A g \in 1..m : prepState[g] = "ok"
        /\ \A e \in Entries : FileOf(e) > m => ePc[e] = "idle"

\* the user cancels: signal.aborted becomes true
Cancel ==
    /\ Idle
    /\ mainPc \notin {"begin", "start"}
    /\ result = "none"
    /\ env.cancel
    /\ ~signalAborted
    /\ signalAborted' = TRUE
    /\ cancelPoint' = IF BetweenFiles THEN "between" ELSE "within"
    /\ UNCHANGED <<numFiles, kind, env, writable, platform, vName, vProbe, vSinks,
                   sampler,
                   faulted,
                   failures, jobs, vMain, vFlags, vCnt, vChain, vEmit, vSink,
                   vPrep, vEnt, vZip, vFile>>

\* -------------------------------------------------------- streamFilesToZip
\* a Begin that asks getWritableStreamForZip even when options.writable is
\* supplied
BeginIgnoringWritable ==
    /\ mainPc = "begin"
    /\ IF getWritableStreamForZip(platform) = "undefined"
       THEN result' = "unavailable" /\ mainPc' = "done"
       ELSE mainPc' = "start" /\ UNCHANGED result
    /\ UNCHANGED <<vEnv, jobs, idx, sub, lastCompletedIndex, asLeft,
                   flushLast, racePending, vFlags, vCnt, vChain, vEmit, vSink,
                   vPrep, vEnt, vZip, vFile>>

\* `const handle = writable ?? (await getWritableStreamForZip(zipName));
\* if (!handle) return "unavailable"', then the writer, the write queue limit
\* and the first targetConcurrency are obtained
Begin ==
    /\ mainPc = "begin"
    /\ IF ~writable /\ getWritableStreamForZip(platform) = "undefined"
       THEN result' = "unavailable" /\ mainPc' = "done"
       ELSE mainPc' = "start" /\ UNCHANGED result
    /\ UNCHANGED <<vEnv, jobs, idx, sub, lastCompletedIndex, asLeft,
                   flushLast, racePending, vFlags, vCnt, vChain, vEmit, vSink,
                   vPrep, vEnt, vZip, vFile>>

\* startConcurrencyRefresh(); scheduleNext(); the main loop is entered
Start ==
    /\ mainPc = "start"
    /\ LET r == scheduleNext(prepState, nextToSchedule, active,
                             targetConcurrency)
       IN  /\ prepState' = r.ps
           /\ nextToSchedule' = r.nx
           /\ active' = r.ac
           /\ jobs' = r.jobs
    /\ mainPc' = "loopTop"
    /\ UNCHANGED <<vEnv, idx, sub, result, lastCompletedIndex, asLeft,
                   flushLast, racePending, vFlags, vCnt, vChain, vEmit, vSink,
                   prepSettled, targetConcurrency, vEnt, vZip, vFile>>

\* the top of an iteration: the cancellation check, then
\* `await preparedPromises[i]' (a missing promise is skipped)
MainLoopTop ==
    /\ mainPc = "loopTop"
    /\ IF signalAborted
       THEN /\ AbortWriter
            /\ result' = "cancelled"
            /\ mainPc' = "done"
            /\ UNCHANGED <<idx, jobs>>
       ELSE IF prepState[idx] = "unsched"
       THEN /\ IF idx < numFiles
               THEN idx' = idx + 1 /\ UNCHANGED mainPc
               ELSE mainPc' = "afterLoop" /\ UNCHANGED idx
            /\ UNCHANGED <<vFlags, sinkState, abortCalls, result, jobs>>
       ELSE /\ mainPc' = "awaitPrepared"
            /\ jobs' = jobs \o (IF prepSettled[idx] THEN <<Job("main", 1)>>
                                ELSE <<>>)
            /\ UNCHANGED <<vFlags, sinkState, abortCalls, result, idx>>
    /\ UNCHANGED <<vEnv, sub, lastCompletedIndex, asLeft, flushLast,
                   racePending, vCnt, vChain, vEmit, sinkInflight, writeCalls,
                   written, closeCalls, vPrep, vEnt, vZip, vFile>>

\* the end of an iteration: `lastCompletedIndex = i; if (zipError) throw
\* zipError', then the next iteration or the end of the loop
IterationEnd ==
    /\ lastCompletedIndex' = idx
    /\ IF zipError # "none"
       THEN mainPc' = "catch" /\ UNCHANGED idx
       ELSE IF idx < numFiles
       THEN mainPc' = "loopTop" /\ idx' = idx + 1
       ELSE mainPc' = "afterLoop" /\ UNCHANGED idx

\* after `await preparedPromise': a prepared file starts its entries, a
\* null one (preparation failed or cancelled) ends the iteration
MainPrepared ==
    /\ HeadIs("main", 1)
    /\ mainPc = "awaitPrepared"
    /\ IF prepState[idx] = "ok"
       THEN LET w == waitForEntrySlot(inFlightEntries, targetConcurrency)
            IN  /\ sub' = 1
                /\ mainPc' = "awaitSlot"
                /\ jobs' = Tail(jobs) \o w.jobs
                /\ pWaiters' = pWaiters \o w.waiters
                /\ racePending' = w.racing
                /\ UNCHANGED <<idx, lastCompletedIndex>>
       ELSE /\ IterationEnd
            /\ jobs' = Tail(jobs)
            /\ UNCHANGED <<sub, pWaiters, racePending>>
    /\ UNCHANGED <<vEnv, result, asLeft, flushLast, vFlags, vCnt, vChain,
                   vEmit, vSink, vPrep, vZip, vFile, ePc, attempt, reads,
                   eLink, getDataCalls, addCount, retries, retryCount,
                   inFlightEntries, pState, entryFailure, entriesAddedToZip,
                   entriesCompletedInZip>>

\* Promise.all(entryPromises) of file f registers its reactions
AllRegister(f, ps) ==
    LET n == EntryCountOf(f)
        RECURSIVE J(_), W(_)
        J(s) == IF s > n THEN <<>>
                ELSE (IF ps[EntryId(f, s)] = "pend" THEN <<>>
                      ELSE <<Job("all", EntryId(f, s))>>) \o J(s + 1)
        W(s) == IF s > n THEN <<>>
                ELSE (IF ps[EntryId(f, s)] = "pend"
                      THEN <<[p |-> EntryId(f, s),
                              j |-> Job("all", EntryId(f, s))]>>
                      ELSE <<>>) \o W(s + 1)
    IN  [jobs |-> J(1), waiters |-> W(1)]

\* after `await waitForEntrySlot()': startEntry(file, entry) runs
\* addEntryToZip up to its first await; after the last entry of the file
\* the file's completion is registered and the iteration ends
MainStartEntry ==
    /\ HeadIs("main", 1)
    /\ mainPc = "awaitSlot"
    /\ LET e == EntryId(idx, sub)
           inFl == Append(inFlightEntries, e)
           ps == [pState EXCEPT ![e] = "pend"]
       IN  /\ attempt' = [attempt EXCEPT ![e] = 1]
           /\ getDataCalls' = [getDataCalls EXCEPT ![e] = @ + 1]
           /\ inFlightEntries' = inFl
           /\ pState' = ps
           /\ \E fails \in BOOLEAN :
               /\ Outcome(~fails, kind[idx] = "live" /\ idx \in env.conv)
               /\ faulted' = IF ~fails THEN faulted ELSE faulted \cup {idx}
               /\ failures' = IF ~fails THEN failures
                            ELSE [failures EXCEPT ![e] = @ + 1]
               /\ LET g == GetDataCall(e, fails)
                  IN  /\ ePc' = [ePc EXCEPT ![e] = g.pc]
                      /\ IF sub < EntryCountOf(idx)
                         THEN LET w == waitForEntrySlot(inFl, targetConcurrency)
                              IN  /\ sub' = sub + 1
                                  /\ jobs' = Tail(jobs) \o g.jobs \o w.jobs
                                  /\ pWaiters' = pWaiters \o w.waiters
                                  /\ racePending' = w.racing
                                  /\ UNCHANGED <<mainPc, idx,
                                                 lastCompletedIndex, allLeft,
                                                 allState>>
                         ELSE LET a == AllRegister(idx, ps)
                              IN  /\ IterationEnd
                                  /\ jobs' = Tail(jobs) \o g.jobs \o a.jobs
                                  /\ pWaiters' = pWaiters \o a.waiters
                                  /\ allLeft' = [allLeft EXCEPT ![idx] =
                                                    EntryCountOf(idx)]
                                  /\ allState' = [allState EXCEPT ![idx] =
                                                     "pend"]
                                  /\ UNCHANGED <<sub, racePending>>
    /\ UNCHANGED <<vIn, result, asLeft, flushLast, vFlags,
                   vCnt, vChain, vEmit, vSink, vPrep, vZip, fcSettled,
                   succCalls, failCalls, reads, eLink, addCount, retries,
                   retryCount, entryFailure, entriesAddedToZip,
                   entriesCompletedInZip>>

\* `await waitForEntrySlot()' throws: an in-flight entry rejected while the
\* loop waited for a slot; `await flushWrites()' throws: the chain rejected
MainAwaitThrew ==
    /\ HeadIs("mainErr", 0)
    /\ mainPc \in {"awaitSlot", "flush"}
    /\ mainPc' = "catch"
    /\ jobs' = Tail(jobs)
    /\ UNCHANGED <<vEnv, idx, sub, result, lastCompletedIndex, asLeft,
                   flushLast, racePending, vFlags, vCnt, vChain, vEmit, vSink,
                   vPrep, vEnt, vZip, vFile>>

\* Promise.allSettled([...inFlightEntries]) registers its reactions
AllSettledRegister(inFl) ==
    [n \in 1..Len(inFl) |-> [p |-> inFl[n], j |-> Job("as", inFl[n])]]

SeqRange(q) == {q[n] : n \in 1..Len(q)}

\* after the loop: `if (inFlightEntries.size) await Promise.allSettled(..)'
MainAfterLoop ==
    /\ mainPc = "afterLoop"
    /\ IF inFlightEntries # <<>>
       THEN /\ asLeft' = SeqRange(inFlightEntries)
            /\ pWaiters' = pWaiters \o AllSettledRegister(inFlightEntries)
            /\ mainPc' = "drain1"
       ELSE /\ mainPc' = "afterDrain"
            /\ UNCHANGED <<asLeft, pWaiters>>
    /\ UNCHANGED <<vEnv, jobs, idx, sub, result, lastCompletedIndex,
                   flushLast, racePending, vFlags, vCnt, vChain, vEmit, vSink,
                   vPrep, vZip, vFile, ePc, attempt, reads, eLink,
                   getDataCalls, addCount, retries, retryCount,
                   inFlightEntries, pState, entryFailure, entriesAddedToZip,
                   entriesCompletedInZip>>

\* the in-flight entries have all settled
MainDrained ==
    /\ HeadIs("main", 1)
    /\ mainPc \in {"drain1", "drain2", "drain2q"}
    /\ mainPc' = IF mainPc = "drain1" THEN "afterDrain" ELSE "finalize"
    /\ jobs' = Tail(jobs)
    /\ UNCHANGED <<vEnv, idx, sub, result, lastCompletedIndex, asLeft,
                   flushLast, racePending, vFlags, vCnt, vChain, vEmit, vSink,
                   vPrep, vEnt, vZip, vFile>>

\* `if (fileCompletions.length) await Promise.allSettled(fileCompletions)'
MainAfterDrain ==
    /\ mainPc = "afterDrain"
    /\ IF \E f \in Files : allState[f] # "none"
       THEN IF \A f \in Files : allState[f] # "none" => fcSettled[f]
            THEN /\ mainPc' = "drain2q"
                 /\ jobs' = jobs \o <<Job("main", 1)>>
            ELSE /\ mainPc' = "drain2"
                 /\ UNCHANGED jobs
       ELSE /\ mainPc' = "finalize"
            /\ UNCHANGED jobs
    /\ UNCHANGED <<vEnv, idx, sub, result, lastCompletedIndex, asLeft,
                   flushLast, racePending, vFlags, vCnt, vChain, vEmit, vSink,
                   vPrep, vEnt, vZip, vFile>>

\* zip.end() followed by flushWrites() up to its first await
EndAndFlush ==
    LET d == DataCallback(ZipEnd)
        f == FlushAwait(chain)
    IN  /\ zipD' = 3
        /\ emitted' = d.emitted
        /\ enq' = d.enq
        /\ writesRequested' = d.requested
        /\ zipError' = d.zerr
        /\ flushLast' = Len(chain)
        /\ jobs' = jobs \o d.jobs \o f.jobs
        /\ chWaiters' = chWaiters \o d.waiters \o f.waiters

\* MainFinalize that goes on to zip.end() without looking at entryFailure
MainFinalizeIgnoringFailure ==
    /\ mainPc = "finalize"
    /\ lastCompletedIndex' = numFiles
    /\ mainPc' = "flush"
    /\ EndAndFlush
    /\ UNCHANGED <<vEnv, idx, sub, result, asLeft, racePending, vFlags,
                   writesQueued, writeQueueDepth, chain, vSink, vPrep, vEnt,
                   zipU, tr, chks, vFile>>

\* `lastCompletedIndex = files.length - 1; if (entryFailure) throw ..;
\* zip.end(); await flushWrites()'
MainFinalize ==
    /\ mainPc = "finalize"
    /\ lastCompletedIndex' = numFiles
    /\ IF entryFailure
       THEN /\ mainPc' = "catch"
            /\ UNCHANGED <<zipD, emitted, enq, writesRequested, zipError,
                           flushLast, jobs, chWaiters>>
       ELSE /\ mainPc' = "flush"
            /\ EndAndFlush
    /\ UNCHANGED <<vEnv, idx, sub, result, asLeft, racePending, vFlags,
                   writesQueued, writeQueueDepth, chain, vSink, vPrep, vEnt,
                   zipU, tr, chks, vFile>>

\* after `await flushWrites()': `if (zipError) throw', the write integrity
\* check, `allowWrites = false; await closeWriter()'
MainFlushed ==
    /\ HeadIs("main", 1)
    /\ mainPc = "flush"
    /\ IF zipError # "none" \/ writesRequested # writesQueued
       THEN /\ mainPc' = "catch"
            /\ jobs' = Tail(jobs)
            /\ UNCHANGED <<vFlags, sinkState, closeCalls>>
       ELSE /\ allowWrites' = FALSE
            /\ CloseWriter
            /\ mainPc' = "closing"
    /\ UNCHANGED <<vEnv, idx, sub, result, lastCompletedIndex, asLeft,
                   flushLast, racePending, vCnt, vChain, vEmit, sinkInflight,
                   writeCalls, written, abortCalls, vPrep, vEnt, vZip, vFile>>

\* after `await closeWriter()': `return "success"'
MainClosed ==
    /\ HeadIs("main", 1)
    /\ mainPc = "closing"
    /\ result' = "success"
    /\ mainPc' = "done"
    /\ jobs' = Tail(jobs)
    /\ UNCHANGED <<vEnv, idx, sub, lastCompletedIndex, asLeft, flushLast,
                   racePending, vFlags, vCnt, vChain, vEmit, vSink, vPrep,
                   vEnt, vZip, vFile>>

\* the catch block without its `if (!signal.aborted)'
MainCatchIgnoringSignal ==
    /\ mainPc = "catch"
    /\ failCalls' = [f \in Files |->
                        IF f > lastCompletedIndex /\ f <= numFiles
                        THEN failCalls[f] + 1 ELSE failCalls[f]]
    /\ IF inFlightEntries # <<>>
       THEN /\ asLeft' = SeqRange(inFlightEntries)
            /\ pWaiters' = pWaiters \o AllSettledRegister(inFlightEntries)
            /\ mainPc' = "catchSettle"
       ELSE /\ mainPc' = "salvage"
            /\ UNCHANGED <<asLeft, pWaiters>>
    /\ UNCHANGED <<vEnv, jobs, idx, sub, result, lastCompletedIndex,
                   flushLast, racePending, vFlags, vCnt, vChain, vEmit, vSink,
                   vPrep, vZip, allLeft, allState, fcSettled, succCalls, ePc,
                   attempt, reads, eLink, getDataCalls, addCount, retries,
                   retryCount, inFlightEntries, pState, entryFailure,
                   entriesAddedToZip, entriesCompletedInZip>>

\* the catch block: without cancellation every file after
\* lastCompletedIndex is reported failed; then the in-flight entries are
\* awaited
MainCatch ==
    /\ mainPc = "catch"
    /\ failCalls' = [f \in Files |->
                        IF ~signalAborted /\ f > lastCompletedIndex /\ f <= numFiles
                        THEN failCalls[f] + 1 ELSE failCalls[f]]
    /\ IF inFlightEntries # <<>>
       THEN /\ asLeft' = SeqRange(inFlightEntries)
            /\ pWaiters' = pWaiters \o AllSettledRegister(inFlightEntries)
            /\ mainPc' = "catchSettle"
       ELSE /\ mainPc' = "salvage"
            /\ UNCHANGED <<asLeft, pWaiters>>
    /\ UNCHANGED <<vEnv, jobs, idx, sub, result, lastCompletedIndex,
                   flushLast, racePending, vFlags, vCnt, vChain, vEmit, vSink,
                   vPrep, vZip, allLeft, allState, fcSettled, succCalls, ePc,
                   attempt, reads, eLink, getDataCalls, addCount, retries,
                   retryCount, inFlightEntries, pState, entryFailure,
                   entriesAddedToZip, entriesCompletedInZip>>

MainCatchSettled ==
    /\ HeadIs("main", 1)
    /\ mainPc = "catchSettle"
    /\ mainPc' = "salvage"
    /\ jobs' = Tail(jobs)
    /\ UNCHANGED <<vEnv, idx, sub, result, lastCompletedIndex, asLeft,
                   flushLast, racePending, vFlags, vCnt, vChain, vEmit, vSink,
                   vPrep, vEnt, vZip, vFile>>

\* the salvage condition without its test that some entry has been added
CanSalvageWithoutEntries ==
    /\ ~signalAborted
    /\ entriesAddedToZip = entriesCompletedInZip
    /\ writesRequested = writesQueued

\* the salvage condition of the catch block
CanSalvage ==
    /\ ~signalAborted
    /\ entriesAddedToZip > 0
    /\ entriesAddedToZip = entriesCompletedInZip
    /\ writesRequested = writesQueued

\* salvage: zip.end() and flushWrites(); otherwise abortWriter() and return
MainSalvage ==
    /\ mainPc = "salvage"
    /\ IF CanSalvage
       THEN /\ mainPc' = "salvFlush"
            /\ EndAndFlush
            /\ UNCHANGED <<vFlags, sinkState, abortCalls, result>>
       ELSE /\ AbortWriter
            /\ result' = IF signalAborted THEN "cancelled" ELSE "error"
            /\ mainPc' = "done"
            /\ UNCHANGED <<zipD, emitted, enq, writesRequested, zipError,
                           flushLast, jobs, chWaiters>>
    /\ UNCHANGED <<vEnv, idx, sub, lastCompletedIndex, asLeft, racePending,
                   writesQueued, writeQueueDepth, chain, sinkInflight,
                   writeCalls, written, closeCalls, vPrep, vEnt, zipU, tr,
                   chks, vFile>>

\* salvage after `await flushWrites()': a rejected chain or a dropped write
\* aborts the writer, otherwise `allowWrites = false; await closeWriter()'
MainSalvageFlushed ==
    /\ mainPc = "salvFlush"
    /\ \/ /\ HeadIs("main", 1)
          /\ writesRequested = writesQueued
          /\ allowWrites' = FALSE
          /\ CloseWriter
          /\ mainPc' = "salvClose"
          /\ UNCHANGED <<abortCalls, result>>
       \/ /\ \/ HeadIs("mainErr", 0)
             \/ HeadIs("main", 1) /\ writesRequested # writesQueued
          /\ AbortWriter
          /\ result' = IF signalAborted THEN "cancelled" ELSE "error"
          /\ mainPc' = "done"
          /\ jobs' = Tail(jobs)
          /\ UNCHANGED closeCalls
    /\ UNCHANGED <<vEnv, idx, sub, lastCompletedIndex, asLeft, flushLast,
                   racePending, vCnt, vChain, vEmit, sinkInflight, writeCalls,
                   written, vPrep, vEnt, vZip, vFile>>

\* salvage after `await closeWriter()': `return "error"'
MainSalvageClosed ==
    /\ HeadIs("main", 1)
    /\ mainPc = "salvClose"
    /\ result' = "error"
    /\ mainPc' = "done"
    /\ jobs' = Tail(jobs)
    /\ UNCHANGED <<vEnv, idx, sub, lastCompletedIndex, asLeft, flushLast,
                   racePending, vFlags, vCnt, vChain, vEmit, vSink, vPrep,
                   vEnt, vZip, vFile>>

\* ------------------------------------------------- refreshConcurrency
\* clampConcurrency(value)
clampConcurrency(value) ==
    Max(STREAM_ZIP_MIN_CONCURRENCY,
        IF value < STREAM_ZIP_MAX_CONCURRENCY THEN value
        ELSE STREAM_ZIP_MAX_CONCURRENCY)

\* ------------------------------ getStreamZipConcurrency / ...WriteQueueLimit
\* amounts of memory are in MB (STREAM_ZIP_BYTES_PER_MB bytes)
Min(a, b) == IF a < b THEN a ELSE b

\* measureUserAgentMemory(): the measurement, or null when the API is absent
\* or fails
measureUserAgentMemory(p) == IF p.memory = "ok" THEN "result" ELSE "null"

concurrencyFromFreeBytes(freeMB) ==
    IF freeMB > 4000 THEN clampConcurrency(24)
    ELSE IF freeMB > 3000 THEN clampConcurrency(20)
    ELSE IF freeMB > 2000 THEN clampConcurrency(16)
    ELSE IF freeMB > 1200 THEN clampConcurrency(12)
    ELSE IF freeMB > 800 THEN clampConcurrency(10)
    ELSE IF freeMB > 400 THEN clampConcurrency(6)
    ELSE IF freeMB > 200 THEN clampConcurrency(4)
    ELSE clampConcurrency(2)

\* applyUsageCaps with the caps of its two highest bands exchanged
applyUsageCapsExchanged(base, usedMB) ==
    IF usedMB > 2500 THEN clampConcurrency(Min(base, 4))
    ELSE IF usedMB > 1800 THEN clampConcurrency(Min(base, 2))
    ELSE IF usedMB > 1200 THEN clampConcurrency(Min(base, 6))
    ELSE IF usedMB > 800 THEN clampConcurrency(Min(base, 8))
    ELSE IF usedMB > 500 THEN clampConcurrency(Min(base, 10))
    ELSE clampConcurrency(base)

applyUsageCaps(base, usedMB) ==
    IF usedMB > 2500 THEN clampConcurrency(Min(base, 2))
    ELSE IF usedMB > 1800 THEN clampConcurrency(Min(base, 4))
    ELSE IF usedMB > 1200 THEN clampConcurrency(Min(base, 6))
    ELSE IF usedMB > 800 THEN clampConcurrency(Min(base, 8))
    ELSE IF usedMB > 500 THEN clampConcurrency(Min(base, 10))
    ELSE clampConcurrency(base)

\* a core count taken as it is, without the clamp
ConcurrencyFromCoresUnclamped(cores) == cores * 2

\* Math.min(STREAM_ZIP_MAX_CONCURRENCY,
\*          Math.max(STREAM_ZIP_MIN_CONCURRENCY, cores * 2))
ConcurrencyFromCores(cores) ==
    Min(STREAM_ZIP_MAX_CONCURRENCY,
        Max(STREAM_ZIP_MIN_CONCURRENCY, cores * 2))

\* what getStreamZipConcurrency() resolves to
getStreamZipConcurrency(p) ==
    IF measureUserAgentMemory(p) # "null"
    THEN LET usedMB == Max(0, p.usedMB)
         IN  IF p.deviceMB # 0
             THEN concurrencyFromFreeBytes(Max(0, p.deviceMB - usedMB))
             ELSE applyUsageCaps(
                      IF p.cores # 0
                      THEN Max(STREAM_ZIP_MIN_CONCURRENCY,
                               Min(STREAM_ZIP_MAX_CONCURRENCY, p.cores * 2))
                      ELSE DefaultConcurrency,
                      usedMB)
    ELSE IF p.cores # 0 THEN ConcurrencyFromCores(p.cores)
    ELSE DefaultConcurrency

queueLimitFromFreeBytes(freeMB) ==
    IF freeMB > 4000 THEN 192
    ELSE IF freeMB > 3000 THEN 160
    ELSE IF freeMB > 2000 THEN 128
    ELSE IF freeMB > 1200 THEN 96
    ELSE IF freeMB > 800 THEN 64
    ELSE IF freeMB > 400 THEN 48
    ELSE IF freeMB > 200 THEN 32
    ELSE STREAM_ZIP_BASE_WRITE_QUEUE_LIMIT

applyUsageCapsForQueue(base, usedMB) ==
    IF usedMB > 2500 THEN Min(base, 32)
    ELSE IF usedMB > 1800 THEN Min(base, 48)
    ELSE IF usedMB > 1200 THEN Min(base, 64)
    ELSE IF usedMB > 800 THEN Min(base, 96)
    ELSE IF usedMB > 500 THEN Min(base, 128)
    ELSE base

queueLimitFromCores(cores) ==
    IF cores >= 24 THEN 160
    ELSE IF cores >= 16 THEN 128
    ELSE IF cores >= 12 THEN 96
    ELSE IF cores >= 8 THEN 64
    ELSE IF cores >= 4 THEN 48
    ELSE 32

\* what getStreamZipWriteQueueLimit() resolves to
getStreamZipWriteQueueLimit(p) ==
    IF measureUserAgentMemory(p) # "null"
    THEN LET usedMB == Max(0, p.usedMB)
         IN  IF p.deviceMB # 0
             THEN queueLimitFromFreeBytes(Max(0, p.deviceMB - usedMB))
             ELSE applyUsageCapsForQueue(
                      IF p.cores # 0 THEN queueLimitFromCores(p.cores)
                      ELSE STREAM_ZIP_BASE_WRITE_QUEUE_LIMIT,
                      usedMB)
    ELSE IF p.deviceMB # 0
    THEN IF p.deviceMB >= 8 * 1024 THEN 160
         ELSE IF p.deviceMB >= 4 * 1024 THEN 96
         ELSE IF p.deviceMB >= 2 * 1024 THEN 64
         ELSE IF p.deviceMB >= 1024 THEN 48
         ELSE 32
    ELSE IF p.cores # 0 THEN queueLimitFromCores(p.cores)
    ELSE STREAM_ZIP_BASE_WRITE_QUEUE_LIMIT

\* the values getStreamZipConcurrency() may return
ConcurrencyReadings == 1..MaxReading

\* the timer started by startConcurrencyRefresh fires and the
\* `await getStreamZipConcurrency()' of refreshConcurrency(true) resolves with
\* `value': a changed target is stored and scheduleNext() runs.  The timer is
\* set before the first scheduleNext() and a refresh it has started can
\* resolve at any time before the function returns
RefreshConcurrency(value) ==
    /\ Idle
    /\ mainPc \notin {"begin", "start"}
    /\ result = "none"
    /\ LET next == clampConcurrency(value)
           r == scheduleNext(prepState, nextToSchedule, active, next)
       IN  /\ next # targetConcurrency
           /\ targetConcurrency' = next
           /\ prepState' = r.ps
           /\ nextToSchedule' = r.nx
           /\ active' = r.ac
           /\ jobs' = r.jobs
    /\ UNCHANGED <<vEnv, vMain, vFlags, vCnt, vChain, vEmit, vSink,
                   prepSettled, vEnt, vZip, vFile>>

\* ------------------------------------------------------- the specification
Next ==
    \/ Begin
    \/ Start
    \/ MainLoopTop
    \/ MainPrepared
    \/ MainStartEntry
    \/ MainAwaitThrew
    \/ MainAfterLoop
    \/ MainDrained
    \/ MainAfterDrain
    \/ MainFinalize
    \/ MainFlushed
    \/ MainClosed
    \/ MainCatch
    \/ MainCatchSettled
    \/ MainSalvage
    \/ MainSalvageFlushed
    \/ MainSalvageClosed
    \/ FlushResume
    \/ CloseSettle
    \/ SinkWriteSettle
    \/ Cancel
    \/ \E f \in Files :
        \/ BlobSettle(f)
        \/ DecodeSettle(f)
        \/ PrepareFinally(f)
        \/ FileRejectPass(f)
        \/ FileSuccess(f)
        \/ FileFailure(f)
    \/ \E e \in Entries :
        \/ GetDataSettle(e)
        \/ GetDataRejected(e)
        \/ BackoffElapsed(e)
        \/ GetDataResolved(e)
        \/ ReadSettle(e)
        \/ ReadResolved(e)
        \/ EntryAwaitThrew(e)
        \/ WfwEntryResume(e)
        \/ PushChunk(e)
        \/ PushFinal(e)
        \/ EntryAwaitChain(e)
        \/ EntryCatch(e)
        \/ EntryFinally(e)
        \/ EntrySettled(e)
        \/ RaceReaction(e)
        \/ AllSettledReaction(e)
        \/ AllReaction(e)
    \/ \E ok \in {0, 1} : EntrySlotResume(ok)
    \/ \E k \in ChunkIds :
        \/ EnqueueResume(k)
        \/ EnqueueThrew(k)
        \/ WfwChunkResume(k)
    \/ \E l \in LinkIds : RunWrite(l)

Spec == Init /\ [][Next]_vars

\* an export of NumFiles files, all but the first live photos: dataToStream
\* throws for the second file, the download of the later ones fails, and
\* nothing else fails
InitFetchFaults ==
    /\ numFiles = NumFiles
    /\ kind \in {k \in [Files -> {"file", "live"}] :
                   \A f \in Files \ {1} : k[f] = "live"}
    /\ env = EnvOf(FALSE, {}, {}, Files \ {1, 2}, {2}, FALSE, TRUE)
    /\ writable = TRUE
    /\ platform = PlatformOf(TRUE, TRUE, TRUE, TRUE)
    /\ Unnamed
    /\ SinksUnused
    /\ InitProgram

\* the steps of a run without cancellation, read failures and sink failures
\* in which a file fails
NextFetchFaults ==
    \/ Begin
    \/ Start
    \/ MainLoopTop
    \/ MainPrepared
    \/ MainStartEntry
    \/ MainAwaitThrew
    \/ MainAfterLoop
    \/ MainDrained
    \/ MainAfterDrain
    \/ MainFinalize
    \/ MainCatch
    \/ MainCatchSettled
    \/ MainSalvage
    \/ MainSalvageFlushed
    \/ MainSalvageClosed
    \/ FlushResume
    \/ CloseSettle
    \/ SinkWriteSettle
    \/ \E f \in Files :
        \/ BlobSettle(f)
        \/ DecodeSettle(f)
        \/ PrepareFinally(f)
        \/ FileRejectPass(f)
        \/ FileSuccess(f)
        \/ FileFailure(f)
    \/ \E e \in Entries :
        \/ GetDataSettle(e)
        \/ GetDataRejected(e)
        \/ BackoffElapsed(e)
        \/ GetDataResolved(e)
        \/ ReadSettle(e)
        \/ ReadResolved(e)
        \/ WfwEntryResume(e)
        \/ PushChunk(e)
        \/ PushFinal(e)
        \/ EntryAwaitChain(e)
        \/ EntryCatch(e)
        \/ EntryFinally(e)
        \/ EntrySettled(e)
        \/ RaceReaction(e)
        \/ AllSettledReaction(e)
        \/ AllReaction(e)
    \/ \E ok \in {0, 1} : EntrySlotResume(ok)
    \/ \E k \in ChunkIds :
        \/ EnqueueResume(k)
        \/ WfwChunkResume(k)
    \/ \E l \in LinkIds : RunWrite(l)

SpecFetchFaults == InitFetchFaults /\ [][NextFetchFaults]_vars

\* an export in which nothing fails and nobody cancels, while the periodic
\* refresh changes targetConcurrency
InitRefresh ==
    /\ numFiles = SmallFiles
    /\ kind \in KindsOf(numFiles)
    /\ env = EnvOf(FALSE, {}, {}, {}, {}, FALSE, FALSE)
    /\ writable = TRUE
    /\ platform = PlatformOf(TRUE, TRUE, TRUE, TRUE)
    /\ Unnamed
    /\ SinksUnused
    /\ InitProgram

NextRefresh ==
    \/ Begin
    \/ Start
    \/ MainLoopTop
    \/ MainPrepared
    \/ MainStartEntry
    \/ MainAfterLoop
    \/ MainDrained
    \/ MainAfterDrain
    \/ MainFinalize
    \/ MainFlushed
    \/ MainClosed
    \/ FlushResume
    \/ CloseSettle
    \/ SinkWriteSettle
    \/ \E value \in ConcurrencyReadings : RefreshConcurrency(value)
    \/ \E f \in Files :
        \/ BlobSettle(f)
        \/ DecodeSettle(f)
        \/ PrepareFinally(f)
        \/ FileSuccess(f)
    \/ \E e \in Entries :
        \/ GetDataSettle(e)
        \/ GetDataResolved(e)
        \/ ReadSettle(e)
        \/ ReadResolved(e)
        \/ WfwEntryResume(e)
        \/ PushChunk(e)
        \/ PushFinal(e)
        \/ EntryAwaitChain(e)
        \/ EntryCatch(e)
        \/ EntryFinally(e)
        \/ EntrySettled(e)
        \/ RaceReaction(e)
        \/ AllSettledReaction(e)
        \/ AllReaction(e)
    \/ \E ok \in {0, 1} : EntrySlotResume(ok)
    \/ \E k \in ChunkIds :
        \/ EnqueueResume(k)
        \/ WfwChunkResume(k)
    \/ \E l \in LinkIds : RunWrite(l)

SpecRefresh == InitRefresh /\ [][NextRefresh]_vars

\* an export of one file in which nothing fails and nobody cancels, with or
\* without options.writable, in every browser
InitHandle ==
    /\ numFiles = 1
    /\ kind \in KindsOf(numFiles)
    /\ env = EnvOf(FALSE, {}, {}, {}, {}, FALSE, FALSE)
    /\ writable \in BOOLEAN
    /\ platform \in Platforms
    /\ Unnamed
    /\ SinksUnused
    /\ InitProgram

NextHandle ==
    \/ Begin
    \/ Start
    \/ MainLoopTop
    \/ MainPrepared
    \/ MainStartEntry
    \/ MainAfterLoop
    \/ MainDrained
    \/ MainAfterDrain
    \/ MainFinalize
    \/ MainFlushed
    \/ MainClosed
    \/ FlushResume
    \/ CloseSettle
    \/ SinkWriteSettle
    \/ \E f \in Files :
        \/ BlobSettle(f)
        \/ DecodeSettle(f)
        \/ PrepareFinally(f)
        \/ FileSuccess(f)
    \/ \E e \in Entries :
        \/ GetDataSettle(e)
        \/ GetDataResolved(e)
        \/ ReadSettle(e)
        \/ ReadResolved(e)
        \/ WfwEntryResume(e)
        \/ PushChunk(e)
        \/ PushFinal(e)
        \/ EntryAwaitChain(e)
        \/ EntryCatch(e)
        \/ EntryFinally(e)
        \/ EntrySettled(e)
        \/ AllSettledReaction(e)
        \/ AllReaction(e)
    \/ \E k \in ChunkIds :
        \/ EnqueueResume(k)
        \/ WfwChunkResume(k)
    \/ \E l \in LinkIds : RunWrite(l)

SpecHandle == InitHandle /\ [][NextHandle]_vars

\* ---------------------------------------------- createZipFileName on its own
\* the titles: up to MaxTokens pieces, each a character or an extension, and
\* the title of the documented example
TitleTokens ==
    {<<"a">>, <<"/">>, <<"|">>, <<" ">>, <<".">>, <<"p">>,
     <<".", "z", "i", "p">>, <<".", "Z", "I", "P">>}

RECURSIVE TitlesOf(_)
TitlesOf(n) ==
    IF n = 0 THEN {<<>>}
    ELSE LET shorter == TitlesOf(n - 1)
         IN  shorter \cup {t \o k : t \in shorter, k \in TitleTokens}

ExampleTitle == <<"a", "/", "b", ":", "c">>
Titles == TitlesOf(MaxTokens) \cup {ExampleTitle}
Parts == {NoPart} \cup {PartOf(n) : n \in {0, 1, 2, MaxPart}}

InitFileName ==
    /\ numFiles = 1
    /\ kind = [f \in Files |-> "file"]
    /\ env = EnvOf(FALSE, {}, {}, {}, {}, FALSE, FALSE)
    /\ writable = TRUE
    /\ platform = PlatformOf(TRUE, TRUE, TRUE, TRUE)
    /\ title \in Titles
    /\ part \in Parts
    /\ probes = ProbesOf("absent", 0, 0, 0)
    /\ SinksUnused
    /\ InitProgram

\* createZipFileName(title, part) is called
CallCreateZipFileName ==
    /\ zipName = <<>>
    /\ zipName' = createZipFileName(title, part)
    /\ UNCHANGED <<title, part>>
    /\ UNCHANGED <<numFiles, kind, signalAborted, env, cancelPoint, writable,
                   platform, vProbe, vSinks, sampler, faulted, failures, jobs, vMain, vFlags, vCnt,
                   vChain, vEmit, vSink, vPrep, vEnt, vZip, vFile>>

\* the name it returned is passed to createZipFileName again, without a part
\* number
Resanitize ==
    /\ zipName # <<>>
    /\ ~part.given
    /\ title' = zipName
    /\ zipName' = createZipFileName(zipName, NoPart)
    /\ UNCHANGED part
    /\ UNCHANGED <<numFiles, kind, signalAborted, env, cancelPoint, writable,
                   platform, vProbe, vSinks, sampler, faulted, failures, jobs, vMain, vFlags, vCnt,
                   vChain, vEmit, vSink, vPrep, vEnt, vZip, vFile>>

NextFileName ==
    \/ CallCreateZipFileName
    \/ Resanitize

SpecFileName == InitFileName /\ [][NextFileName]_vars

\* ------------------------------------------------- the probes on their own
UsedMBs ==
    {-1, 0, 100, 200, 201, 500, 501, 800, 801, 1200, 1201, 1800, 1801, 2500,
     2501, 4000, 9000}
DeviceMBs == {0, 256, 512, 1024, 2048, 4096, 8192}
CoreCounts == {0, 1, 2, 3, 4, 8, 12, 13, 16, 24, MaxCores}

InitProbes ==
    /\ numFiles = 1
    /\ kind = [f \in Files |-> "file"]
    /\ env = EnvOf(FALSE, {}, {}, {}, {}, FALSE, FALSE)
    /\ writable = TRUE
    /\ platform = PlatformOf(TRUE, TRUE, TRUE, TRUE)
    /\ title = <<>>
    /\ part = NoPart
    /\ probes \in {ProbesOf(m, u, d, c) :
                     m \in {"absent", "failing", "ok"}, u \in UsedMBs,
                     d \in DeviceMBs, c \in CoreCounts}
    /\ SinksUnused
    /\ InitProgram

\* getStreamZipConcurrency() is called and resolves
CallGetStreamZipConcurrency ==
    /\ concurrency = 0
    /\ concurrency' = getStreamZipConcurrency(probes)
    /\ UNCHANGED <<probes, limit>>
    /\ UNCHANGED <<numFiles, kind, signalAborted, env, cancelPoint, writable,
                   platform, vName, vSinks, sampler, faulted, failures, jobs, vMain, vFlags,
                   vCnt, vChain, vEmit, vSink, vPrep, vEnt, vZip, vFile>>

\* getStreamZipWriteQueueLimit() is called and resolves
CallGetStreamZipWriteQueueLimit ==
    /\ limit = 0
    /\ limit' = getStreamZipWriteQueueLimit(probes)
    /\ UNCHANGED <<probes, concurrency>>
    /\ UNCHANGED <<numFiles, kind, signalAborted, env, cancelPoint, writable,
                   platform, vName, vSinks, sampler, faulted, failures, jobs, vMain, vFlags,
                   vCnt, vChain, vEmit, vSink, vPrep, vEnt, vZip, vFile>>

NextProbes ==
    \/ CallGetStreamZipConcurrency
    \/ CallGetStreamZipWriteQueueLimit

SpecProbes == InitProbes /\ [][NextProbes]_vars

\* --------------------------------------- createNativeZipWritable on its own
\* everything but the two sinks and the sampler
vExport ==
    <<numFiles, kind, signalAborted, env, cancelPoint, writable, platform,
      vName, vProbe, faulted, failures, jobs, vMain, vFlags, vCnt, vChain,
      vEmit, vSink, vPrep, vEnt, vZip, vFile>>

\* everything but the two sinks
vRun == <<vExport, sampler>>

InitNativeSink ==
    /\ numFiles = 1
    /\ kind = [f \in Files |-> "file"]
    /\ env = EnvOf(FALSE, {}, {}, {}, {}, FALSE, FALSE)
    /\ writable = TRUE
    /\ platform = PlatformOf(TRUE, TRUE, TRUE, TRUE)
    /\ Unnamed
    /\ SinksUnused
    /\ InitProgram

\* nothing the sink registered is waiting for the microtask queue: only then
\* does whoever holds the handle get to call it
NativeIdle == ~native.catchJob

PendingWrites(n) == {i \in 1..Len(n.writes) : n.writes[i].st = "pending"}

\* writer.abort(..) of the transform stream's writer: the writes it has not
\* taken are rejected and the stream is errored, unless it is closed already
\* or has nothing left to do but finish closing
WriterAbort(n) ==
    [n EXCEPT
       !.writerAborts = @ + 1,
       !.writer = IF \/ @ = "writable"
                     \/ @ = "closing" /\ PendingWrites(n) # {}
                  THEN "errored" ELSE @,
       !.writes = [i \in 1..Len(@) |->
                     IF @[i].st = "pending"
                     THEN [@[i] EXCEPT !.st = "rejected"] ELSE @[i]]]

\* abort() without its `if (aborted) return'
NativeAbortUnguarded ==
    /\ NativeIdle
    /\ native.abortCalls < MaxSinkCalls
    /\ native' = [WriterAbort(native) EXCEPT !.aborted = TRUE,
                                             !.abortCalls = @ + 1]
    /\ UNCHANGED <<vRun, browser>>

\* the promise writeStream(electron, filePath, transform.readable) returned
\* settles; a rejection queues the handler writePromise.catch registered
WriteStreamSettles(ok) ==
    /\ native.writePromise = "pending"
    /\ native' = [native EXCEPT
                    !.writePromise = IF ok THEN "fulfilled" ELSE "rejected",
                    !.catchJob = ~ok]
    /\ UNCHANGED <<vRun, browser>>

\* the handler of writePromise.catch
NativeCatch ==
    /\ native.catchJob
    /\ LET n == [native EXCEPT !.catchJob = FALSE, !.streamError = TRUE]
       IN  native' = IF ~n.aborted
                     THEN [WriterAbort(n) EXCEPT !.aborted = TRUE]
                     ELSE n
    /\ UNCHANGED <<vRun, browser>>

\* write(chunk) of the handle's stream; `late' records that writePromise had
\* rejected when the call was made
NativeWrite ==
    /\ NativeIdle
    /\ Len(native.writes) < MaxSinkCalls
    /\ LET st == IF native.streamError THEN "rejected"
                 ELSE IF native.aborted THEN "rejected"
                 ELSE IF native.writer = "writable" THEN "pending"
                 ELSE "rejected"
       IN  native' = [native EXCEPT
                        !.writes = Append(@, [late |-> native.writePromise = "rejected",
                                              st |-> st])]
    /\ UNCHANGED <<vRun, browser>>

\* the transform stream takes a chunk: writer.write(chunk) resolves
NativeWriteTaken(i) ==
    /\ i \in PendingWrites(native)
    /\ \A j \in PendingWrites(native) : i <= j
    /\ native.writer \in {"writable", "closing"}
    /\ native' = [native EXCEPT !.writes[i].st = "resolved"]
    /\ UNCHANGED <<vRun, browser>>

\* close() of the handle (and of its stream), up to `await writer.close()'
NativeClose ==
    /\ NativeIdle
    /\ Len(native.closes) < MaxSinkCalls
    /\ LET late == native.writePromise = "rejected"
       IN  IF native.streamError
           THEN native' = [native EXCEPT
                             !.closes = Append(@, [late |-> late, pc |-> "rejected",
                                                   err |-> "captured"])]
           ELSE IF native.writer = "writable"
           THEN native' = [native EXCEPT
                             !.writer = "closing",
                             !.closes = Append(@, [late |-> late, pc |-> "writerClose",
                                                   err |-> "none"])]
           ELSE native' = [native EXCEPT
                             !.closes = Append(@, [late |-> late, pc |-> "rejected",
                                                   err |-> "other"])]
    /\ UNCHANGED <<vRun, browser>>

\* the transform stream has taken every chunk and finishes closing
WriterCloseDone ==
    /\ native.writer = "closing"
    /\ PendingWrites(native) = {}
    /\ native' = [native EXCEPT !.writer = "closed"]
    /\ UNCHANGED <<vRun, browser>>

\* close() resumes after `await writer.close()'
NativeCloseAfterWriterClose(i) ==
    /\ NativeIdle
    /\ i \in 1..Len(native.closes)
    /\ native.closes[i].pc = "writerClose"
    /\ native.writer \in {"closed", "errored"}
    /\ native' = [native EXCEPT
                    !.closes[i] =
                       IF native.writer = "closed"
                       THEN [@ EXCEPT !.pc = "writePromise"]
                       ELSE [@ EXCEPT !.pc = "rejected",
                                      !.err = IF native.streamError
                                              THEN "captured" ELSE "other"]]
    /\ UNCHANGED <<vRun, browser>>

\* close() resumes after `await writePromise'
NativeCloseAfterWritePromise(i) ==
    /\ NativeIdle
    /\ i \in 1..Len(native.closes)
    /\ native.closes[i].pc = "writePromise"
    /\ native.writePromise # "pending"
    /\ native' = [native EXCEPT
                    !.closes[i] =
                       IF native.writePromise = "fulfilled"
                       THEN [@ EXCEPT !.pc = "resolved"]
                       ELSE [@ EXCEPT !.pc = "rejected", !.err = "captured"]]
    /\ UNCHANGED <<vRun, browser>>

\* abort() of the handle (and of its stream)
NativeAbort ==
    /\ NativeIdle
    /\ native.abortCalls < MaxSinkCalls
    /\ native' = IF native.aborted
                 THEN [native EXCEPT !.abortCalls = @ + 1]
                 ELSE [WriterAbort(native) EXCEPT !.aborted = TRUE,
                                                  !.abortCalls = @ + 1]
    /\ UNCHANGED <<vRun, browser>>

NextNativeSink ==
    \/ \E ok \in BOOLEAN : WriteStreamSettles(ok)
    \/ NativeCatch
    \/ NativeWrite
    \/ \E i \in 1..MaxSinkCalls : NativeWriteTaken(i)
    \/ NativeClose
    \/ WriterCloseDone
    \/ \E i \in 1..MaxSinkCalls : NativeCloseAfterWriterClose(i)
    \/ \E i \in 1..MaxSinkCalls : NativeCloseAfterWritePromise(i)
    \/ NativeAbort

SpecNativeSink == InitNativeSink /\ [][NextNativeSink]_vars

\* --------------------------- the sink of getWritableStreamForZip on its own
InitBrowserSink ==
    /\ numFiles = 1
    /\ kind = [f \in Files |-> "file"]
    /\ env = EnvOf(FALSE, {}, {}, {}, {}, FALSE, FALSE)
    /\ writable = FALSE
    /\ platform = PlatformOf(TRUE, TRUE, TRUE, TRUE)
    /\ Unnamed
    /\ SinksUnused
    /\ InitProgram

\* a call is recorded with the object it was made on, what was called and
\* what came of it: "writer" (StreamSaver's writer was called), "noop"
\* (returned without doing anything) or "rejected" (the stream refused it)
CallOf(via, op, out) == [via |-> via, op |-> op, out |-> out]

\* the body the four closures share: `if (closed) return; closed = true;'
\* and then writer.close() or writer.abort()
Finalize(b, via, op) ==
    IF b.closed
    THEN [b EXCEPT !.calls = Append(@, CallOf(via, op, "noop"))]
    ELSE [b EXCEPT !.closed = TRUE,
                   !.writerCloses = IF op = "close" THEN @ + 1 ELSE @,
                   !.writerAborts = IF op = "abort" THEN @ + 1 ELSE @,
                   !.calls = Append(@, CallOf(via, op, "writer"))]

\* close() of the handle without its `if (closed) return'
HandleCloseUnguarded ==
    /\ Len(browser.calls) < MaxFinalizeCalls
    /\ browser' = Finalize([browser EXCEPT !.closed = FALSE], "handle", "close")
    /\ UNCHANGED <<vRun, native>>

\* close() of the handle
HandleClose ==
    /\ Len(browser.calls) < MaxFinalizeCalls
    /\ browser' = Finalize(browser, "handle", "close")
    /\ UNCHANGED <<vRun, native>>

\* abort() of the handle
HandleAbort ==
    /\ Len(browser.calls) < MaxFinalizeCalls
    /\ browser' = Finalize(browser, "handle", "abort")
    /\ UNCHANGED <<vRun, native>>

\* close() of wrappedStream (directly or through its writer): a stream that
\* is closed or errored rejects the call and leaves its sink alone, a
\* writable one runs the sink's close and is closed if that resolves
StreamClose(ok) ==
    /\ Len(browser.calls) < MaxFinalizeCalls
    /\ IF browser.stream # "writable"
       THEN /\ ok
            /\ browser' = [browser EXCEPT
                             !.calls = Append(@, CallOf("stream", "close", "rejected"))]
       ELSE /\ ok \/ ~browser.closed
            /\ browser' = [Finalize(browser, "stream", "close") EXCEPT
                             !.stream = IF ok THEN "closed" ELSE "errored"]
    /\ UNCHANGED <<vRun, native>>

\* abort() of wrappedStream (directly or through its writer): a stream that
\* is closed or errored resolves at once and leaves its sink alone, a
\* writable one runs the sink's abort and is errored
StreamAbort ==
    /\ Len(browser.calls) < MaxFinalizeCalls
    /\ IF browser.stream # "writable"
       THEN browser' = [browser EXCEPT
                          !.calls = Append(@, CallOf("stream", "abort", "noop"))]
       ELSE browser' = [Finalize(browser, "stream", "abort") EXCEPT
                          !.stream = "errored"]
    /\ UNCHANGED <<vRun, native>>

NextBrowserSink ==
    \/ HandleClose
    \/ HandleAbort
    \/ \E ok \in BOOLEAN : StreamClose(ok)
    \/ StreamAbort

SpecBrowserSink == InitBrowserSink /\ [][NextBrowserSink]_vars

\* ------------------------------------------- an export whose waits all end
\* a live photo followed by an ordinary file, so that the third entry waits
\* for a slot; the downloads of the second file and the sink may fail, and
\* the user may cancel
InitSettling ==
    /\ numFiles = SmallFiles
    /\ kind = [f \in Files |-> IF f = 1 THEN "live" ELSE "file"]
    /\ env = EnvOf(TRUE, {SmallFiles}, {}, {}, {}, TRUE, FALSE)
    /\ writable = TRUE
    /\ platform = PlatformOf(TRUE, TRUE, TRUE, TRUE)
    /\ Unnamed
    /\ SinksUnused
    /\ InitProgram

\* a step of anything but the user: the event loop runs every queued job,
\* and every download, read, conversion, backoff delay and sink operation
\* that is pending settles; the user's cancellation alone is not bound to
\* happen
Settling == Next /\ UNCHANGED signalAborted

SpecSettling == InitSettling /\ [][Next]_vars /\ WF_vars(Settling)

\* ------------------------------------------------------------------ claims
\* C1: on the path that returns "success", when writer.close is invoked every
\* chunk the encoder has emitted through its data callback has been passed to
\* writer.write and that write has resolved
C1_EmittedWrittenBeforeClose ==
    [][(mainPc = "flush" /\ mainPc' = "closing")
         => \A k \in 1..Len(emitted) : k \in written]_vars

\* C2: on the path that returns "success", at the moment writer.close is
\* invoked writesRequested = writesQueued and entriesAddedToZip =
\* entriesCompletedInZip
C2_CountersAgreeAtClose ==
    [][(mainPc = "flush" /\ mainPc' = "closing")
         => /\ closeCalls' = closeCalls + 1
            /\ writesRequested = writesQueued
            /\ entriesAddedToZip = entriesCompletedInZip]_vars

\* a run of two or more entries has returned "success" after one close
C2_Witness ==
    /\ result = "success"
    /\ closeCalls = 1
    /\ entriesAddedToZip >= 2
    /\ writesRequested >= 2

\* C3: writer.write is invoked for the chunks in the order in which the
\* encoder's data callback was invoked for them
C3_WritesInEmissionOrder ==
    \A i, j \in 1..Len(writeCalls) : i < j => writeCalls[i] < writeCalls[j]

\* C4: zip.add is called in source-file order, and within a live photo for
\* the image before the video: the entries the encoder holds are in the order
\* of the file list
C4_AddedInFileOrder ==
    \A i, j \in 1..Len(zipU) : i < j => zipU[i] < zipU[j]

\* C5: zip.add is called at most once for an entry, and once it has been
\* called for an entry neither getData nor zip.add is called for it again
C5_AddedOnceNoFetchAfterAdd ==
    /\ [](\A e \in Entries : addCount[e] <= 1)
    /\ [][\A e \in Entries :
            addCount[e] >= 1 => /\ addCount'[e] = addCount[e]
                                /\ getDataCalls'[e] = getDataCalls[e]]_vars

\* an entry that was added after a failed getData attempt has failed later
C5_Witness ==
    \E e \in Entries :
        /\ addCount[e] = 1
        /\ getDataCalls[e] >= 2
        /\ ePc[e] = "failed"

\* C6: without cancellation and without a sink error, when the getData of one
\* file fails on every attempt before anything of it is added, and every other
\* file is fetched and fully written, the run returns "success", the archive
\* holds exactly the entries of the other files and onFileFailure has been
\* called exactly once for the failed file
C6_OneFetchFailureStillSuccess ==
    \A f \in 1..numFiles :
        LET exhausted(e) == /\ ePc[e] = "failed"
                            /\ addCount[e] = 0
                            /\ getDataCalls[e] = STREAM_ZIP_MAX_RETRIES
            inSink(e) == \E k \in written :
                             emitted[k].e = e /\ emitted[k].t = "hdr"
            fullyWritten(e) ==
                /\ ePc[e] = "done"
                /\ chks[e] = <<>>
                /\ \A k \in 1..Len(emitted) : emitted[k].e = e => k \in written
        IN  (/\ result # "none"
             /\ jobs = <<>>
             /\ ~signalAborted
             /\ faulted = {f}
             /\ prepState[f] = "ok"
             /\ \E e \in EntriesOf(f) : exhausted(e)
             /\ \A e \in EntriesOf(f) : addCount[e] = 0
             /\ \A g \in (1..numFiles) \ {f} :
                    /\ prepState[g] = "ok"
                    /\ \A e \in EntriesOf(g) : fullyWritten(e))
            => /\ result = "success"
               /\ failCalls[f] = 1
               /\ \A e \in Entries :
                    inSink(e) <=> /\ FileOf(e) \in (1..numFiles) \ {f}
                                  /\ e \in EntriesOf(FileOf(e))

\* C7: without cancellation and without a sink error, once the getData of an
\* entry has failed on every attempt no file that suffered no failure of its
\* own is reported through onFileFailure, and when the run has returned every
\* entry of such a file has been started
C7_FetchFailureRecoveredLocally ==
    (/\ ~signalAborted
     /\ 0 \notin faulted
     /\ \E e \in Entries : /\ ePc[e] = "failed"
                           /\ addCount[e] = 0
                           /\ getDataCalls[e] = STREAM_ZIP_MAX_RETRIES)
    => \A g \in (1..numFiles) \ faulted :
          /\ failCalls[g] = 0
          /\ (result # "none" /\ prepState[g] = "ok")
                => \A e \in EntriesOf(g) : ePc[e] # "idle"

\* C8: when every file either failed at the fetch phase (its download or
\* conversion failed before anything of it was added) or was fully written,
\* onFileFailure has been called exactly once for each failed file and for
\* no other, and an archive that has been closed holds exactly the entries of
\* the files that were written
C8_FetchFailuresReportedOnce ==
    LET inSink(e) == \E k \in written :
                         emitted[k].e = e /\ emitted[k].t = "hdr"
        fullyWritten(e) ==
            /\ ePc[e] = "done"
            /\ chks[e] = <<>>
            /\ \A k \in 1..Len(emitted) : emitted[k].e = e => k \in written
        failedFiles ==
            {f \in 1..numFiles :
                /\ f \in faulted
                /\ \A e \in EntriesOf(f) : addCount[e] = 0
                /\ \/ prepState[f] = "null"
                   \/ \E e \in EntriesOf(f) :
                        /\ ePc[e] = "failed"
                        /\ getDataCalls[e] = STREAM_ZIP_MAX_RETRIES}
        writtenFiles ==
            {f \in 1..numFiles :
                /\ prepState[f] = "ok"
                /\ \A e \in EntriesOf(f) : fullyWritten(e)}
    IN  (/\ result # "none"
         /\ jobs = <<>>
         /\ failedFiles # {}
         /\ failedFiles \cup writtenFiles = 1..numFiles)
        => /\ \A f \in failedFiles : failCalls[f] = 1
           /\ \A f \in writtenFiles : failCalls[f] = 0
           /\ sinkState = "closed"
                => \A e \in Entries :
                     inSink(e) <=> /\ FileOf(e) \in writtenFiles
                                   /\ e \in EntriesOf(FileOf(e))

\* C9: without cancellation, an entry that has been added was added once,
\* after fewer than STREAM_ZIP_MAX_RETRIES failed getData calls, with one
\* getData call more than failures and one retry counted for each failure; an
\* entry whose getData has failed STREAM_ZIP_MAX_RETRIES times has had exactly
\* that many getData calls and is never added, and when the run is over
\* onFileFailure has been called exactly once for its file
C9_RetryBound ==
    ~signalAborted =>
        \A e \in Entries :
            /\ addCount[e] >= 1
                 => /\ addCount[e] = 1
                    /\ failures[e] < STREAM_ZIP_MAX_RETRIES
                    /\ getDataCalls[e] = failures[e] + 1
                    /\ retries[e] = failures[e]
            /\ failures[e] <= STREAM_ZIP_MAX_RETRIES
            /\ failures[e] = STREAM_ZIP_MAX_RETRIES
                 => /\ getDataCalls[e] = STREAM_ZIP_MAX_RETRIES
                    /\ addCount[e] = 0
                    /\ (result # "none" /\ jobs = <<>>)
                         => failCalls[FileOf(e)] = 1

\* the run is over without cancellation: one entry was added after two failed
\* getData calls, another was given up after STREAM_ZIP_MAX_RETRIES failures
C9_Witness ==
    /\ ~signalAborted
    /\ result # "none"
    /\ jobs = <<>>
    /\ \E e \in Entries : failures[e] = 2 /\ addCount[e] = 1
    /\ \E e \in Entries : /\ failures[e] = STREAM_ZIP_MAX_RETRIES
                          /\ failCalls[FileOf(e)] = 1

\* C10: when the user cancels after some files, not all, have been written
\* completely and before the main loop has started an entry of a later file,
\* and nothing fails, the run returns "cancelled", writer.abort has been
\* invoked and writer.close is never invoked
C10_CancelBetweenFiles ==
    (cancelPoint = "between" /\ faulted = {})
        => /\ closeCalls = 0
           /\ result # "none" => (result = "cancelled" /\ abortCalls >= 1)

\* C11: cancellation always wins: from any state in which the signal is set
\* and writer.close has not been invoked yet, writer.close is never invoked,
\* and a result, once returned, is "cancelled" with writer.abort invoked
\* (stated for the runs in which no download, read or sink operation fails)
C11_CancellationWins ==
    [][(signalAborted /\ closeCalls = 0 /\ faulted' = {})
         => /\ closeCalls' = 0
            /\ (result' # "none" => (result' = "cancelled" /\ abortCalls' >= 1))]_vars

\* the sink has broken between two files: without cancellation and without
\* any other failure a writer.write has rejected, and what the sink has
\* accepted is exactly the complete entries of the first m files, 0 < m < n
SinkBrokeAfter(m) ==
    /\ ~signalAborted
    /\ faulted = {0}
    /\ \E l \in 1..Len(chain) : chain[l].st = "rej" /\ chain[l].err = "other"
    /\ \A f \in 1..m : \A e \in EntriesOf(f) :
          /\ ePc[e] = "done"
          /\ \E k \in written : emitted[k] = Chunk(e, "dd", 0)
    /\ \A k \in written : emitted[k].e # 0 /\ FileOf(emitted[k].e) <= m

\* C12: when the sink starts failing after the first m of n files have been
\* written completely and before the next one starts (no cancellation), the
\* result is "error", the salvage path closes the sink instead of aborting it,
\* and onFileFailure is called for each of the files m+1 .. n
C12_SinkBreakSalvaged ==
    \A m \in 1..(numFiles - 1) :
        (SinkBrokeAfter(m) /\ result # "none")
            => /\ result = "error"
               /\ closeCalls = 1
               /\ abortCalls = 0
               /\ \A f \in (m + 1)..numFiles : failCalls[f] = 1

\* C13 as stated: in the catch block of a run that is not cancelled, once the
\* in-flight entries have settled, the encoder is finalized and writer.close
\* is invoked exactly when entriesAddedToZip > 0, entriesAddedToZip =
\* entriesCompletedInZip and writesRequested = writesQueued, before and after
\* zip.end(); otherwise the sink is aborted and never closed; the result is
\* "error" in both cases
C13_SalvageGateAsStated ==
    /\ [][(mainPc = "salvage" /\ ~signalAborted)
            => IF /\ entriesAddedToZip > 0
                  /\ entriesAddedToZip = entriesCompletedInZip
                  /\ writesRequested = writesQueued
               THEN mainPc' = "salvFlush" /\ abortCalls' = abortCalls
               ELSE /\ abortCalls' = abortCalls + 1
                    /\ closeCalls' = 0
                    /\ result' = "error"]_vars
    /\ [][(mainPc = "salvFlush" /\ mainPc' # "salvFlush" /\ ~signalAborted)
            => IF writesRequested = writesQueued
               THEN /\ closeCalls' = closeCalls + 1
                    /\ abortCalls' = abortCalls
               ELSE /\ abortCalls' = abortCalls + 1
                    /\ closeCalls' = 0
                    /\ result' = "error"]_vars
    /\ [][(mainPc = "salvClose" /\ mainPc' = "done")
            => result' = "error"]_vars

\* C13: the same, with the condition the code adds: the flushWrites() that
\* follows zip.end() must not throw; when it throws (a write of the flushed
\* chain has rejected) the sink is aborted and never closed
C13_SalvageGate ==
    /\ [][(mainPc = "salvage" /\ ~signalAborted)
            => IF /\ entriesAddedToZip > 0
                  /\ entriesAddedToZip = entriesCompletedInZip
                  /\ writesRequested = writesQueued
               THEN mainPc' = "salvFlush" /\ abortCalls' = abortCalls
               ELSE /\ abortCalls' = abortCalls + 1
                    /\ closeCalls' = 0
                    /\ result' = "error"]_vars
    /\ [][(mainPc = "salvFlush" /\ mainPc' # "salvFlush" /\ ~signalAborted)
            => IF writesRequested = writesQueued /\ HeadIs("main", 1)
               THEN /\ closeCalls' = closeCalls + 1
                    /\ abortCalls' = abortCalls
               ELSE /\ abortCalls' = abortCalls + 1
                    /\ closeCalls' = 0
                    /\ result' = "error"]_vars
    /\ [][(mainPc = "salvClose" /\ mainPc' = "done")
            => result' = "error"]_vars

\* a partial archive has been salvaged: after a fatal error the sink was
\* closed with a complete entry in it, and "error" returned
C13_Witness ==
    /\ result = "error"
    /\ ~signalAborted
    /\ closeCalls = 1
    /\ abortCalls = 0
    /\ entriesCompletedInZip >= 1
    /\ entriesAddedToZip = entriesCompletedInZip

\* C14: whenever a result other than "unavailable" has been returned, exactly
\* one of writer.close and writer.abort has been invoked, never both;
\* "success" implies close and not abort, "cancelled" implies abort and not
\* close
C14_CloseXorAbort ==
    result \notin {"none", "unavailable"}
        => /\ (closeCalls >= 1) # (abortCalls >= 1)
           /\ result = "success" => (closeCalls >= 1 /\ abortCalls = 0)
           /\ result = "cancelled" => (abortCalls >= 1 /\ closeCalls = 0)

\* both ways out have been taken: a run has returned "cancelled" after
\* aborting the sink without closing it
C14_Witness ==
    /\ result = "cancelled"
    /\ abortCalls = 1
    /\ closeCalls = 0
    /\ entriesAddedToZip >= 1

\* C15: a live photo yields exactly two entries, the image started before the
\* video; onFileSuccess is called for it at most once and only after both
\* entries have completed, and once the function has returned it has been
\* called if both have completed; when one of its entries has failed,
\* onFileSuccess is never called for it and, in a run that is not cancelled,
\* onFileFailure has been called for it by the time the function has returned
\* and no reaction is pending
C15_LivePhoto ==
    \A f \in 1..numFiles :
        kind[f] = "live" =>
            LET img == EntryId(f, 1)
                vid == EntryId(f, 2)
                settledRun == result # "none" /\ jobs = <<>>
            IN  /\ EntriesOf(f) = {img, vid}
                /\ ePc[vid] # "idle" => ePc[img] # "idle"
                /\ succCalls[f] <= 1
                /\ succCalls[f] = 1 => (ePc[img] = "done" /\ ePc[vid] = "done")
                /\ (settledRun /\ ePc[img] = "done" /\ ePc[vid] = "done")
                      => succCalls[f] = 1
                /\ (ePc[img] = "failed" \/ ePc[vid] = "failed")
                      => /\ succCalls[f] = 0
                         /\ (settledRun /\ ~signalAborted) => failCalls[f] >= 1

\* C15 as stated, cancelled runs included: a live photo yields exactly two
\* entries, onFileSuccess is called for it at most once and only after both
\* have completed, and when one of its entries has failed onFileSuccess is
\* never called for it and onFileFailure has been called for it once the
\* function has returned and no reaction is pending
C15_LivePhotoAsStated ==
    \A f \in 1..numFiles :
        kind[f] = "live" =>
            LET img == EntryId(f, 1)
                vid == EntryId(f, 2)
                settledRun == result # "none" /\ jobs = <<>>
            IN  /\ EntriesOf(f) = {img, vid}
                /\ succCalls[f] <= 1
                /\ succCalls[f] = 1 => (ePc[img] = "done" /\ ePc[vid] = "done")
                /\ (ePc[img] = "failed" \/ ePc[vid] = "failed")
                      => /\ succCalls[f] = 0
                         /\ settledRun => failCalls[f] >= 1

\* in a run that is not cancelled an entry of a live photo has failed while
\* the other one completed, the function has returned and onFileFailure has
\* been called for the file
C15_Witness ==
    \E f \in 1..numFiles :
        /\ kind[f] = "live"
        /\ ~signalAborted
        /\ result # "none"
        /\ jobs = <<>>
        /\ ePc[EntryId(f, 1)] = "done"
        /\ ePc[EntryId(f, 2)] = "failed"
        /\ failCalls[f] = 1
        /\ succCalls[f] = 0

\* C16: the size of inFlightEntries never exceeds targetConcurrency, also
\* right after a periodic refresh has lowered targetConcurrency while entries
\* are in flight
C16_InFlightWithinTarget == Len(inFlightEntries) <= targetConcurrency

\* C17: writeQueueDepth never exceeds writeQueueLimit, also when one push
\* makes the encoder emit several chunks at once or several enqueueWrite calls
\* pass waitForWriteWindow together
C17_DepthWithinLimit == writeQueueDepth <= WriteQueueLimit

\* C18: a failure of a sink primitive is fatal: when a writer.write has
\* rejected outside shutdown, or the final writer.close has rejected, the
\* result is not "success" (stated for the runs that are not cancelled and in
\* which nothing but the sink fails)
C18_SinkFailureIsFatal ==
    (faulted = {0} /\ ~signalAborted) => result # "success"

\* C19: happy path: for n ordinary files whose downloads succeed at the first
\* attempt, without sink error and without cancellation, once the function
\* has returned the result is "success", onFileSuccess has been called exactly
\* once per file, onFileFailure never, exactly n entries have been added and
\* completed, and the sink is closed
C19_HappyPath ==
    (/\ ~signalAborted
     /\ faulted = {}
     /\ \A f \in 1..numFiles : kind[f] = "file")
        => (result # "none"
              => /\ result = "success"
                 /\ \A f \in 1..numFiles :
                       succCalls[f] = 1 /\ failCalls[f] = 0
                 /\ entriesAddedToZip = numFiles
                 /\ entriesCompletedInZip = numFiles
                 /\ closeCalls = 1
                 /\ abortCalls = 0
                 /\ sinkState = "closed")

\* two ordinary files have been exported without any failure
C19_Witness ==
    /\ numFiles = 2
    /\ \A f \in 1..numFiles : kind[f] = "file"
    /\ ~signalAborted
    /\ faulted = {}
    /\ result = "success"
    /\ succCalls[1] = 1
    /\ succCalls[2] = 1
    /\ sinkState = "closed"

\* C20: once the handle has been looked for, the function has returned
\* "unavailable" exactly when no writable was supplied and
\* getWritableStreamForZip returned undefined; in that case no file has been
\* prepared or fetched, no callback invoked, nothing emitted or written, the
\* sink neither closed nor aborted, and no concurrency refresh can run
C20_UnavailableIffNoHandle ==
    mainPc # "begin"
        => /\ result = "unavailable"
                <=> (~writable /\ (~platform.window \/ ~platform.writableStream
                                   \/ ~platform.serviceWorker
                                   \/ ~platform.streamSaver))
           /\ result = "unavailable"
                => /\ \A f \in Files :
                        /\ prepState[f] = "unsched"
                        /\ succCalls[f] = 0
                        /\ failCalls[f] = 0
                   /\ nextToSchedule = 1
                   /\ \A e \in Entries : getDataCalls[e] = 0 /\ ePc[e] = "idle"
                   /\ emitted = <<>>
                   /\ writeCalls = <<>>
                   /\ closeCalls = 0
                   /\ abortCalls = 0
                   /\ \A v \in ConcurrencyReadings : ~ENABLED RefreshConcurrency(v)

\* without a supplied writable, in a browser without service workers, the
\* function has returned "unavailable"
C20_Witness ==
    /\ result = "unavailable"
    /\ ~writable
    /\ ~platform.serviceWorker
    /\ platform.window

\* a string ends with ".zip"
EndsWithZip(s) == Len(s) >= 4 /\ SubSeq(s, Len(s) - 3, Len(s)) = ZipExt

\* C21 as stated: createZipFileName(title, part) ends with ".zip", contains
\* none of the characters \ / : * ? " < > |, ends with "-part" N ".zip"
\* whenever a part number N is given, and createZipFileName("a/b:c", 2) is
\* "a_b_c-part2.zip"
C21_FileNameFormAsStated ==
    zipName # <<>>
        => /\ EndsWithZip(zipName)
           /\ \A i \in 1..Len(zipName) : zipName[i] \notin IllegalChars
           /\ part.given
                => LET suffix == PartInfix \o Digits(part.n) \o ZipExt
                       n == Len(zipName)
                   IN  /\ n >= Len(suffix)
                       /\ SubSeq(zipName, n - Len(suffix) + 1, n) = suffix
           /\ (title = ExampleTitle /\ part = PartOf(2))
                => zipName = <<"a", "_", "b", "_", "c", "-", "p", "a", "r",
                               "t", "2", ".", "z", "i", "p">>

\* C21: the same for every part number other than 0; a part number of 0 is
\* treated as absent (`part ?') and the name is base ".zip"
C21_FileNameForm ==
    zipName # <<>>
        => /\ EndsWithZip(zipName)
           /\ \A i \in 1..Len(zipName) : zipName[i] \notin IllegalChars
           /\ (part.given /\ part.n # 0)
                => LET suffix == PartInfix \o Digits(part.n) \o ZipExt
                       n == Len(zipName)
                   IN  /\ n >= Len(suffix)
                       /\ SubSeq(zipName, n - Len(suffix) + 1, n) = suffix
           /\ (part.given /\ part.n = 0)
                => zipName = createZipFileName(title, NoPart)
           /\ (title = ExampleTitle /\ part = PartOf(2))
                => zipName = <<"a", "_", "b", "_", "c", "-", "p", "a", "r",
                               "t", "2", ".", "z", "i", "p">>

\* the documented example has been computed
C21_Witness ==
    /\ title = ExampleTitle
    /\ part = PartOf(2)
    /\ zipName # <<>>

\* C22: the base name is never empty: for a title that is empty after
\* replacing the illegal characters, trimming and stripping a trailing .zip
\* extension, the name is "ente-download.zip", or "ente-download-partN.zip"
C22_DefaultBaseName ==
    (/\ zipName # <<>>
     /\ StripZip(Trim(ReplaceIllegal(title))) = <<>>)
        => zipName = IF part.given /\ part.n # 0
                     THEN DefaultBase \o PartInfix \o Digits(part.n) \o ZipExt
                     ELSE DefaultBase \o ZipExt

\* C23: createZipFileName is idempotent without a part number: passing a name
\* it has returned to it again returns the same name
C23_FileNameIdempotent ==
    [][(zipName # <<>> /\ ~part.given) => zipName' = zipName]_vars

\* a name made from a title with an illegal character and an extension has
\* been passed to createZipFileName again
C23_Witness ==
    /\ ~part.given
    /\ title = <<"a", "_", "a", ".", "z", "i", "p">>
    /\ zipName = title

\* C24: for every combination of the probes, getStreamZipConcurrency resolves
\* to an integer in [2, 24] and getStreamZipWriteQueueLimit to a value of at
\* least 24; when no probe is available they resolve to exactly 4 and 24
C24_ProbeResultsInRange ==
    LET noProbe == /\ probes.memory # "ok"
                   /\ probes.deviceMB = 0
                   /\ probes.cores = 0
    IN  /\ concurrency # 0
            => /\ concurrency \in 2..24
               /\ noProbe => concurrency = 4
        /\ limit # 0
            => /\ limit >= 24
               /\ noProbe => limit = 24

\* both functions have resolved on a machine with every probe, where the
\* usage cap lowers the concurrency the cores would give
C24_Witness ==
    /\ probes.memory = "ok"
    /\ probes.deviceMB = 0
    /\ probes.cores = MaxCores
    /\ probes.usedMB = 2501
    /\ concurrency = 2
    /\ limit = 32


\* C25: the sink of createNativeZipWritable hands a failure of writeStream on:
\* its writer is aborted once and never twice, an explicit abort() counted;
\* whenever the promise of writeStream has rejected the writer has been
\* aborted, every write() made since has rejected and every close() made
\* since has rejected with the captured error; and no close() has resolved
\* unless the promise of writeStream fulfilled
C25_NativeFailurePropagates ==
    /\ native.writerAborts <= 1
    /\ (native.writePromise = "rejected" /\ NativeIdle)
          => native.aborted /\ native.streamError /\ native.writerAborts = 1
    /\ \A i \in 1..Len(native.writes) :
          native.writes[i].late => native.writes[i].st = "rejected"
    /\ \A i \in 1..Len(native.closes) :
          /\ native.closes[i].late
                => native.closes[i].pc = "rejected" /\ native.closes[i].err = "captured"
          /\ native.closes[i].pc = "resolved" => native.writePromise = "fulfilled"

\* writeStream failed while a close() was waiting for it; abort() was called
\* as well, and a write() and a close() made after the failure were rejected
C25_Witness ==
    /\ native.writePromise = "rejected"
    /\ native.abortCalls > 0
    /\ native.writerAborts = 1
    /\ \E i \in 1..Len(native.writes) : native.writes[i].late
    /\ Len(native.closes) = 2
    /\ ~native.closes[1].late /\ native.closes[1].pc = "rejected"
    /\ native.closes[2].late


\* C26 as stated: whatever close() and abort() calls are made on the handle
\* of getWritableStreamForZip and on its wrapped stream, StreamSaver's writer
\* receives at most one close or abort in total, and every call after the
\* first returns without doing anything and without throwing
C26_FinalizeOnceAsStated ==
    /\ browser.writerCloses + browser.writerAborts <= 1
    /\ \A i \in 2..Len(browser.calls) : browser.calls[i].out = "noop"

\* C26: whatever close() and abort() calls are made on the handle of
\* getWritableStreamForZip and on its wrapped stream, StreamSaver's writer
\* receives at most one close or abort in total; no call after the first
\* reaches that writer, every later call on the handle returns without doing
\* anything and without throwing, and the only later calls that reject are
\* close() calls on a wrapped stream that is closed or errored already
C26_FinalizeOnce ==
    /\ browser.writerCloses + browser.writerAborts <= 1
    /\ \A i \in 2..Len(browser.calls) :
          LET c == browser.calls[i]
          IN  /\ c.out # "writer"
              /\ c.via = "handle" => c.out = "noop"
              /\ c.out = "rejected" => c.via = "stream" /\ c.op = "close"

\* the handle was aborted, then closed, and the wrapped stream was closed
\* twice: the writer was called once
C26_Witness ==
    /\ Len(browser.calls) = 4
    /\ browser.calls[1] = CallOf("handle", "abort", "writer")
    /\ browser.calls[2] = CallOf("handle", "close", "noop")
    /\ browser.calls[3] = CallOf("stream", "close", "noop")
    /\ browser.calls[4] = CallOf("stream", "close", "rejected")
    /\ browser.writerAborts = 1 /\ browser.writerCloses = 0


\* C28: the step that takes the catch block to its wait for the in-flight
\* entries (or, with none in flight, past it) has by then called
\* onFileFailure once for every file after lastCompletedIndex when the signal
\* is not aborted, and for no file when it is
C28_RemainingReportedFirst ==
    [][(mainPc = "catch" /\ mainPc' # "catch")
         => \A f \in 1..numFiles :
               failCalls'[f] = failCalls[f]
                  + (IF ~signalAborted /\ f > lastCompletedIndex THEN 1 ELSE 0)]_vars

\* no cancellation: the catch block is waiting for in-flight entries, the
\* loop had not finished with the last file, and that file has been reported
C28_Witness ==
    /\ mainPc = "catchSettle"
    /\ ~signalAborted
    /\ inFlightEntries # <<>>
    /\ lastCompletedIndex < numFiles
    /\ failCalls[numFiles] = 1
    /\ \A e \in EntriesOf(numFiles) : ePc[e] = "idle"

\* C29: retries stop on cancellation: once the signal is set no entry whose
\* getData has been attempted has getData attempted again, a signal set
\* during the backoff delay included
C29_NoRetryAfterCancel ==
    [][signalAborted
         => \A e \in Entries :
               getDataCalls[e] >= 1 => getDataCalls'[e] = getDataCalls[e]]_vars


\* C30: once streamFilesToZip has returned "cancelled" nothing is scheduled
\* any more: scheduleNext starts no prepareFile, no entry is started and no
\* download is initiated (no getData call), and neither onFileSuccess nor
\* onFileFailure is invoked (stated for the runs in which no download, read
\* or preparation fails)
C30_QuietAfterCancelled ==
    [][(result = "cancelled" /\ faulted' \subseteq {0})
         => /\ nextToSchedule' = nextToSchedule
            /\ getDataCalls' = getDataCalls
            /\ succCalls' = succCalls
            /\ failCalls' = failCalls]_vars


\* C27: when every download, read, backoff delay and sink operation
\* eventually settles, streamFilesToZip eventually returns "success",
\* "cancelled" or "error": it is not left waiting in waitForWriteWindow,
\* waitForEntrySlot or flushWrites
C27_Terminates == <>(result \in {"success", "cancelled", "error"})

\* an export has returned after one of its downloads was retried and with
\* every write it had queued settled
C27_Witness ==
    /\ result \in {"success", "cancelled", "error"}
    /\ retryCount >= 1
    /\ writeQueueDepth = 0
    /\ Len(chain) >= 2

\* C31: a refresh that raises targetConcurrency starts, in the same step,
\* the work the new value permits: after it no file is left unscheduled
\* while active < targetConcurrency, and a main loop that was blocked in
\* waitForEntrySlot with fewer entries in flight than the new value is
\* blocked no longer
C31_RefreshStartsPermittedWork ==
    [][targetConcurrency' > targetConcurrency
         => /\ nextToSchedule' > numFiles \/ active' >= targetConcurrency'
            /\ (racePending /\ Len(inFlightEntries) < targetConcurrency')
                  => ~racePending']_vars


\* C32: `active' is the number of prepareFile calls that have been started
\* and whose finally has not run yet, and is never negative; the files
\* scheduled are exactly those before nextToSchedule, which never decreases;
\* a step that schedules a file leaves active <= targetConcurrency (it
\* started the file while active < targetConcurrency), and no file is
\* scheduled twice
C32_SchedulerInvariant ==
    /\ [](/\ active >= 0
          /\ active = Cardinality({f \in Files :
                                     prepState[f] # "unsched" /\ ~prepSettled[f]})
          /\ {f \in Files : prepState[f] # "unsched"} = 1..(nextToSchedule - 1)
          /\ nextToSchedule <= numFiles + 1)
    /\ [][/\ nextToSchedule' >= nextToSchedule
          /\ nextToSchedule' > nextToSchedule => active' <= targetConcurrency'
          /\ \A f \in Files :
                prepState[f] # "unsched" => prepState'[f] # "unsched"]_vars

\* the third file was scheduled only after the preparation of an earlier one
\* had settled, and is being prepared
C32_Witness ==
    /\ numFiles = NumFiles
    /\ nextToSchedule = numFiles + 1
    /\ active = 1
    /\ prepState[NumFiles] = "blob"
    /\ prepSettled[1] /\ prepSettled[2]


\* the estimate of free memory the two functions work with, in MB
FreeMB(p) == Max(0, p.deviceMB - Max(0, p.usedMB))

\* the cap a number of used MB puts on the concurrency
UsageCap(usedMB) ==
    IF usedMB > 2500 THEN 2
    ELSE IF usedMB > 1800 THEN 4
    ELSE IF usedMB > 1200 THEN 6
    ELSE IF usedMB > 800 THEN 8
    ELSE IF usedMB > 500 THEN 10
    ELSE STREAM_ZIP_MAX_CONCURRENCY

\* C33: the tuning functions are monotone.  With a memory measurement and
\* deviceMemory, no machine with at least as much estimated free memory gets
\* a lower concurrency or write queue limit than the ones resolved here; with
\* a memory measurement only and a core count, the concurrency is
\* min(clamp(cores * 2), cap(used)), and no reading of more used memory with
\* the same core count gets a higher concurrency or write queue limit
C33_TuningMonotone ==
    probes.memory = "ok" =>
      IF probes.deviceMB # 0
      THEN \A u \in UsedMBs, d \in DeviceMBs \ {0} :
              LET q == ProbesOf("ok", u, d, probes.cores)
              IN  FreeMB(q) >= FreeMB(probes)
                    => /\ concurrency # 0 => getStreamZipConcurrency(q) >= concurrency
                       /\ limit # 0 => getStreamZipWriteQueueLimit(q) >= limit
      ELSE /\ (concurrency # 0 /\ probes.cores # 0)
                 => concurrency = Min(clampConcurrency(probes.cores * 2),
                                      UsageCap(probes.usedMB))
           /\ \A u \in UsedMBs :
                 LET q == ProbesOf("ok", u, 0, probes.cores)
                 IN  u >= probes.usedMB
                       => /\ concurrency # 0 => getStreamZipConcurrency(q) <= concurrency
                          /\ limit # 0 => getStreamZipWriteQueueLimit(q) <= limit

\* a memory measurement only: eight cores would give 16 and 64, the 1201 MB
\* in use cap the concurrency at 6 and leave the queue limit at 64
C33_Witness ==
    /\ probes = ProbesOf("ok", 1201, 0, 8)
    /\ concurrency = 6
    /\ limit = 64

\* ---------------------------------------------------------------------------
\* The memory sampler of zip-concurrency.ts, measureUserAgentMemory, on its
\* own.  `sampler' holds the three module variables, the clock, and two
\* histories: stage[id] is the promise chain of the id-th probe that returned
\* a promise (where its reactions stand, how the platform settled it, and when
\* its result was stored), calls[i] is what the i-th call of the sampler did
\* and got.  A measurement is named by the id of its probe; 0 is null.
\* ---------------------------------------------------------------------------

InitSampler ==
    /\ InitProgram
    /\ numFiles = SmallFiles
    /\ kind = [f \in Files |-> "file"]
    /\ env = EnvOf(FALSE, {}, {}, {}, {}, FALSE, FALSE)
    /\ writable = "ok"
    /\ platform = PlatformOf(TRUE, TRUE, TRUE, TRUE)
    /\ Unnamed
    /\ native = NativeNew
    /\ browser = BrowserNew
    /\ \E has \in BOOLEAN : sampler = [SamplerNew EXCEPT !.hasMeasure = has]

\* the sampler without the test of pendingMemoryMeasurement
MeasurePathUnshared(s) ==
    IF ~s.hasMeasure THEN "absent"
    ELSE IF /\ s.lastMemoryMeasurement # 0
            /\ s.now - s.lastMemoryMeasurementAt
                   < STREAM_ZIP_CONCURRENCY_REFRESH_MS THEN "cached"
    ELSE "probe"

\* the branch a call of measureUserAgentMemory takes in state s
MeasurePath(s) ==
    IF ~s.hasMeasure THEN "absent"
    ELSE IF /\ s.lastMemoryMeasurement # 0
            /\ s.now - s.lastMemoryMeasurementAt
                   < STREAM_ZIP_CONCURRENCY_REFRESH_MS THEN "cached"
    ELSE IF s.pendingMemoryMeasurement # 0 THEN "shared"
    ELSE "probe"

CallOfSampler(how, id, got) ==
    [at |-> sampler.now, how |-> how, id |-> id, got |-> got]

\* one call of measureUserAgentMemory, up to its return; the platform's
\* probe either returns a promise or throws
MeasureCall ==
    /\ Len(sampler.calls) < MaxSamplerCalls
    /\ LET path == MeasurePath(sampler)
           id == Len(sampler.stage) + 1
       IN CASE path = "absent" ->
                 sampler' = [sampler EXCEPT
                     !.calls = Append(@, CallOfSampler("absent", 0, "null"))]
            [] path = "cached" ->
                 sampler' = [sampler EXCEPT
                     !.calls = Append(@, CallOfSampler("cached",
                                   sampler.lastMemoryMeasurement, "result"))]
            [] path = "shared" ->
                 sampler' = [sampler EXCEPT
                     !.calls = Append(@, CallOfSampler("shared",
                                   sampler.pendingMemoryMeasurement, "pending"))]
            [] path = "probe" ->
                 \/ sampler' = [sampler EXCEPT
                        !.invoked = @ + 1,
                        !.pendingMemoryMeasurement = id,
                        !.stage = Append(@, [at |-> "probing", ok |-> FALSE,
                                             t |-> 0]),
                        !.calls = Append(@, CallOfSampler("probed", id,
                                                          "pending"))]
                 \/ sampler' = [sampler EXCEPT
                        !.invoked = @ + 1,
                        !.pendingMemoryMeasurement = 0,
                        !.calls = Append(@, CallOfSampler("threw", 0, "null"))]
    /\ UNCHANGED <<vExport, vSinks>>

\* the platform settles the promise of probe id
ProbeSettles(id, ok) ==
    /\ id \in DOMAIN sampler.stage
    /\ sampler.stage[id].at = "probing"
    /\ sampler' = [sampler EXCEPT !.stage[id].at = "then", !.stage[id].ok = ok]
    /\ UNCHANGED <<vExport, vSinks>>

\* .then((result) => { lastMemoryMeasurement = result; ... }), passed over by
\* a rejection
MeasureThen(id) ==
    /\ id \in DOMAIN sampler.stage
    /\ sampler.stage[id].at = "then"
    /\ sampler' =
          IF sampler.stage[id].ok
          THEN [sampler EXCEPT !.lastMemoryMeasurement = id,
                               !.lastMemoryMeasurementAt = sampler.now,
                               !.stage[id].t = sampler.now,
                               !.stage[id].at = "catch"]
          ELSE [sampler EXCEPT !.stage[id].at = "catch"]
    /\ UNCHANGED <<vExport, vSinks>>

\* .catch((e) => { log.warn(...); return null; }), passed over by a result
MeasureCatch(id) ==
    /\ id \in DOMAIN sampler.stage
    /\ sampler.stage[id].at = "catch"
    /\ sampler' = [sampler EXCEPT !.stage[id].at = "finally"]
    /\ UNCHANGED <<vExport, vSinks>>

\* .finally(() => { pendingMemoryMeasurement = null; })
MeasureFinally(id) ==
    /\ id \in DOMAIN sampler.stage
    /\ sampler.stage[id].at = "finally"
    /\ sampler' = [sampler EXCEPT !.pendingMemoryMeasurement = 0,
                                  !.stage[id].at = "done"]
    /\ UNCHANGED <<vExport, vSinks>>

\* the promise a call returned settles with what its chain came to: the
\* result, or the null of the catch handler
MeasureReturns(i) ==
    /\ i \in DOMAIN sampler.calls
    /\ sampler.calls[i].got = "pending"
    /\ sampler.stage[sampler.calls[i].id].at = "done"
    /\ sampler' = [sampler EXCEPT !.calls[i].got =
                      IF sampler.stage[sampler.calls[i].id].ok
                      THEN "result" ELSE "null"]
    /\ UNCHANGED <<vExport, vSinks>>

\* Date.now() moves on
ClockTick ==
    /\ sampler.now + TickMs <= MaxMs
    /\ sampler' = [sampler EXCEPT !.now = @ + TickMs]
    /\ UNCHANGED <<vExport, vSinks>>

NextSampler ==
    \/ MeasureCall
    \/ \E id \in 1..MaxSamplerCalls, ok \in BOOLEAN : ProbeSettles(id, ok)
    \/ \E id \in 1..MaxSamplerCalls : MeasureThen(id)
    \/ \E id \in 1..MaxSamplerCalls : MeasureCatch(id)
    \/ \E id \in 1..MaxSamplerCalls : MeasureFinally(id)
    \/ \E i \in 1..MaxSamplerCalls : MeasureReturns(i)
    \/ ClockTick

SpecSampler == InitSampler /\ [][NextSampler]_vars

\* the probes whose promise chain has not run to its end
ProbesPending == {id \in DOMAIN sampler.stage : sampler.stage[id].at # "done"}

\* the measurements that succeeded less than the refresh interval ago
FreshMeasurements ==
    {id \in DOMAIN sampler.stage :
        /\ sampler.stage[id].ok
        /\ sampler.stage[id].at \in {"catch", "finally", "done"}
        /\ sampler.now - sampler.stage[id].t < STREAM_ZIP_CONCURRENCY_REFRESH_MS}

\* C34: a call of the sampler made less than 600 ms after a measurement
\* succeeded returns that measurement and does not invoke the platform's
\* probe; at most one probe is pending at any time, and a call made while
\* one is pending (and no fresh measurement exists) gets that probe's
\* outcome; a failed probe is never remembered and gives null.
C34_SamplerMemoization ==
    /\ [](/\ Cardinality(ProbesPending) <= 1
          /\ sampler.pendingMemoryMeasurement # 0
                => sampler.pendingMemoryMeasurement \in ProbesPending
          /\ sampler.lastMemoryMeasurement # 0
                => sampler.stage[sampler.lastMemoryMeasurement].ok
          /\ \A i \in DOMAIN sampler.calls :
                LET c == sampler.calls[i]
                IN /\ c.how \in {"shared", "probed"} /\ c.got # "pending"
                        => c.got = IF sampler.stage[c.id].ok
                                   THEN "result" ELSE "null"
                   /\ c.how = "cached" => sampler.stage[c.id].ok)
    /\ [][Len(sampler'.calls) > Len(sampler.calls)
            => LET c == sampler'.calls[Len(sampler'.calls)]
               IN /\ FreshMeasurements # {}
                       => /\ c.how = "cached"
                          /\ c.id \in FreshMeasurements
                          /\ c.got = "result"
                          /\ sampler'.invoked = sampler.invoked
                  /\ (FreshMeasurements = {} /\ ProbesPending # {})
                       => /\ c.how = "shared"
                          /\ c.id \in ProbesPending
                          /\ sampler'.invoked = sampler.invoked]_vars

\* a probe succeeded and was shared by a second caller, a third call within
\* the interval reused it, and a later probe failed and gave null
C34_Witness ==
    /\ Len(sampler.calls) = 4
    /\ sampler.calls[1].how = "probed" /\ sampler.calls[1].got = "result"
    /\ sampler.calls[2].how = "shared" /\ sampler.calls[2].got = "result"
    /\ sampler.calls[3].how = "cached" /\ sampler.calls[3].id = 1
    /\ sampler.calls[3].at > sampler.calls[1].at
    /\ sampler.calls[4].how = "probed" /\ sampler.calls[4].got = "null"
    /\ sampler.lastMemoryMeasurement = 1

\* the entries startEntry was called for
EntriesStarted == {e \in Entries : ePc[e] # "idle"}

\* the links of writeChain whose finally handler has not run
LinksUnsettled == {l \in DOMAIN chain : chain[l].st = "pend"}

\* C35: at every moment entriesCompletedInZip <= entriesAddedToZip <= the
\* number of entries started, writesQueued <= writesRequested, and
\* writeQueueDepth is the number of links appended to writeChain minus the
\* number of them that have settled, which is never negative.
C35_CounterConsistency ==
    /\ entriesCompletedInZip <= entriesAddedToZip
    /\ entriesAddedToZip <= Cardinality(EntriesStarted)
    /\ writesQueued <= writesRequested
    /\ writesQueued = Len(chain)
    /\ writeQueueDepth = writesQueued - (Len(chain) - Cardinality(LinksUnsettled))
    /\ writeQueueDepth >= 0

\* two links wait in the chain behind settled ones while a further chunk has
\* been requested but not queued, and one of two added entries is complete
C35_Witness ==
    /\ writeQueueDepth = 2
    /\ writesQueued > writeQueueDepth
    /\ writesRequested > writesQueued
    /\ entriesCompletedInZip = 1
    /\ entriesAddedToZip = 2

\* C36: over a whole run onFileFailure is called at most once for each file,
\* whichever of the three places calls it: the catch of prepareFile, the
\* catch handler of the file's completion, or the catch block of
\* streamFilesToZip marking the files after lastCompletedIndex.
C36_FailureAtMostOnce ==
    \A f \in Files : failCalls[f] <= 1

\* nothing the run started is still on its way: no microtask is queued, no
\* preparation or entry is pending, no write is in flight in the sink
WorkSettled ==
    /\ mainPc = "done"
    /\ jobs = <<>>
    /\ sinkInflight = 0
    /\ \A f \in 1..numFiles : prepState[f] \in {"unsched", "ok", "null"}
    /\ \A e \in Entries : ePc[e] \in {"idle", "done", "failed"}

\* C37: no file is reported through both onFileSuccess and onFileFailure,
\* onFileSuccess is called at most once for a file, and when a run has
\* returned "success" or "error" and its in-flight work has settled, every
\* input file has received exactly one callback.
C37_ReportingExclusiveAndComplete ==
    /\ \A f \in 1..numFiles :
          /\ ~(succCalls[f] >= 1 /\ failCalls[f] >= 1)
          /\ succCalls[f] <= 1
    /\ (result \in {"success", "error"} /\ WorkSettled)
          => \A f \in 1..numFiles : succCalls[f] + failCalls[f] = 1

\* ---------------------------------------------------------------------------
\* Exports of NumFiles files, live photos but for the last, whose preparations
\* complete in every order, with or without success, while the refresh timer
\* changes the concurrency target; nothing else fails and the user does not
\* cancel.
\* ---------------------------------------------------------------------------
InitSchedule ==
    /\ numFiles = NumFiles
    /\ kind = [f \in Files |-> IF f < NumFiles THEN "live" ELSE "file"]
    /\ env = EnvOf(FALSE, {}, {}, Files, {}, FALSE, FALSE)
    /\ writable = TRUE
    /\ platform = PlatformOf(TRUE, TRUE, TRUE, TRUE)
    /\ Unnamed
    /\ SinksUnused
    /\ InitProgram

SpecSchedule == InitSchedule /\ [][NextRefresh]_vars

\* C38: whenever the main loop is at the top of the iteration for file i,
\* preparedPromises[i] has been assigned, so the `continue' on a missing
\* promise is never taken, whatever the order in which preparations complete
\* and however the concurrency target changes during the export.
C38_NoFileSkipped ==
    /\ [](mainPc \in {"loopTop", "awaitPrepared"}
             => /\ idx < nextToSchedule
                /\ prepState[idx] # "unsched")
    /\ [][(mainPc = "loopTop" /\ mainPc' # "loopTop")
             => mainPc' \in {"awaitPrepared", "done"}]_vars

\* the main loop has consumed the earlier files and awaits the preparation of
\* the last one, which was scheduled behind them under the smallest target
C38_Witness ==
    /\ mainPc = "awaitPrepared"
    /\ idx = NumFiles
    /\ targetConcurrency = STREAM_ZIP_MIN_CONCURRENCY
    /\ nextToSchedule = NumFiles + 1

\* ---------------------------------------------------------------------------
\* Exports into a sink whose writes can fail with either kind of error: one
\* that isClosingError does not recognise (SinkWriteSettle), or one whose
\* message mentions "closed" although nobody is closing the stream.  No
\* download fails and the user does not cancel.
\* ---------------------------------------------------------------------------
InitSinkErrors ==
    /\ numFiles \in 1..SmallFiles
    /\ kind \in KindsOf(numFiles)
    /\ env = EnvOf(FALSE, {}, {}, {}, {}, TRUE, FALSE)
    /\ writable = TRUE
    /\ platform = PlatformOf(TRUE, TRUE, TRUE, TRUE)
    /\ Unnamed
    /\ SinksUnused
    /\ InitProgram

\* the sink rejects the write in flight with an error that isClosingError
\* takes for a closing error
SinkWriteFailsAsClosed ==
    /\ Idle
    /\ sinkInflight # 0
    /\ env.sink
    /\ faulted' = faulted \cup {0}
    /\ sinkState' = IF sinkState = "open" THEN "errored" ELSE sinkState
    /\ LET r == SettleLink(chain, sinkInflight, FALSE, "closing",
                           writeQueueDepth, zipError, shuttingDown)
       IN  /\ chain' = r.chain
           /\ writeQueueDepth' = r.depth
           /\ zipError' = r.zerr
           /\ jobs' = r.jobs
           /\ chWaiters' = r.waiters
    /\ sinkInflight' = 0
    /\ UNCHANGED <<vIn, failures, vMain, vFlags, writesRequested,
                   writesQueued, vEmit, writeCalls, written, closeCalls,
                   abortCalls, vPrep, vEnt, vZip, vFile>>

\* the steps of a run in which only the sink fails
NextSinkErrors ==
    \/ Begin
    \/ Start
    \/ MainLoopTop
    \/ MainPrepared
    \/ MainStartEntry
    \/ MainAwaitThrew
    \/ MainAfterLoop
    \/ MainDrained
    \/ MainAfterDrain
    \/ MainFinalize
    \/ MainFlushed
    \/ MainClosed
    \/ MainCatch
    \/ MainCatchSettled
    \/ MainSalvage
    \/ FlushResume
    \/ CloseSettle
    \/ SinkWriteSettle
    \/ \E f \in Files :
        \/ BlobSettle(f)
        \/ DecodeSettle(f)
        \/ PrepareFinally(f)
        \/ FileRejectPass(f)
        \/ FileSuccess(f)
        \/ FileFailure(f)
    \/ \E e \in Entries :
        \/ GetDataSettle(e)
        \/ GetDataResolved(e)
        \/ ReadSettle(e)
        \/ ReadResolved(e)
        \/ EntryAwaitThrew(e)
        \/ WfwEntryResume(e)
        \/ PushChunk(e)
        \/ PushFinal(e)
        \/ EntryAwaitChain(e)
        \/ EntryCatch(e)
        \/ EntryFinally(e)
        \/ EntrySettled(e)
        \/ RaceReaction(e)
        \/ AllSettledReaction(e)
        \/ AllReaction(e)
    \/ \E ok \in {0, 1} : EntrySlotResume(ok)
    \/ \E k \in ChunkIds :
        \/ EnqueueResume(k)
        \/ EnqueueThrew(k)
        \/ WfwChunkResume(k)
    \/ \E l \in LinkIds : RunWrite(l)
    \/ SinkWriteFailsAsClosed

SpecSinkErrors == InitSinkErrors /\ [][NextSinkErrors]_vars

\* a write of the sink has failed while the stream was open, that is before
\* closeWriter or abortWriter was called, and writer.close has not been called
\* since: the model's sink is "errored" only through a write that failed on an
\* open stream or through a close that failed
WriteFailedOutsideShutdown == sinkState = "errored" /\ closeCalls = 0

\* the links of writeChain that have rejected
LinksRejected == {l \in DOMAIN chain : chain[l].st = "rej"}

EntryFullyWritten(e) ==
    /\ chks[e] = <<>>
    /\ \A k \in 1..Len(emitted) : emitted[k].e = e => k \in written

\* C40: entriesCompletedInZip is incremented for an entry only when every
\* chunk of the entry, its terminating chunk and data descriptor included, has
\* been written to the sink successfully; hence whenever entriesAddedToZip =
\* entriesCompletedInZip, no added entry has bytes that are still held back,
\* pending or failed.
C40_CompletedMeansWritten ==
    /\ [][\A e \in Entries :
            (ePc[e] # "done" /\ ePc'[e] = "done") => EntryFullyWritten(e)]_vars
    /\ [](entriesAddedToZip = entriesCompletedInZip
            => \A e \in Entries : addCount[e] >= 1 => EntryFullyWritten(e))

====
